---------------------------- MODULE Spec2Model ----------------------------
(***************************************************************************)
(* Model of the capability invocation SDK (more0ai/sdks, TypeScript).      *)
(*                                                                         *)
(* The client runs on one event loop.  An action of this module is one     *)
(* turn of that loop: the code that runs from an external event (a call    *)
(* by the application, a reply from the bus, a timer) up to the next await *)
(* on real I/O, together with the promise reactions that the turn settles. *)
(*                                                                         *)
(* Strings that the code parses, joins or compares by prefix are modelled  *)
(* as sequences of one-character strings.  An optional value is <<>>       *)
(* (undefined) or <<x>>.                                                   *)
(*                                                                         *)
(* The module holds one specification per subsystem:                       *)
(*   SpecTtl    the generic TTL cache                                      *)
(*   SpecDedup  the in-flight deduplication map                            *)
(*   SpecRes    bootstrap seeding and the resolution client                *)
(*   SpecFallback  the same client configured with fallback mappings       *)
(*   SpecPool   the multi-bus connection pool                             *)
(*   SpecLru    the pool at capacity, with three remote buses             *)
(*   SpecPipeline  buildPipeline over arbitrary middleware arrays         *)
(*   SpecInvoke the client's invoke and invokeSubject                     *)
(*   SpecLifecycle  the client's initialize and close                     *)
(*   SpecInvalidation  registry change events and the caches              *)
(*   SpecWorker the worker pool manager and handleMessage                  *)
(*   SpecRace   the resolution client with change events and clearCaches   *)
(*   SpecReap   the pool of one remote bus under fair scheduling           *)
(*   SpecKey    ResolutionCache.buildKey                                   *)
(*   SpecDeadline  the deadline middleware                                 *)
(***************************************************************************)
EXTENDS Integers, Sequences, FiniteSets, TLC

VARIABLES
    now,        \* Date.now(), in ms
    cfg,        \* TTLCacheConfig / ResolutionCacheConfig of the cache instance
    cache,      \* TTLCache.cache: the Map, as the sequence of its entries in insertion order
    lastGet,    \* SpecTtl: the latest TTLCache.get and what it returned
    shadow,     \* SpecTtl: per key, when it was last set and with which TTL (history)
    dPending,   \* SpecDedup: InFlightDedup.pending
    dPromise,   \* SpecDedup: the promises the factories returned
    dCall,      \* SpecDedup: the getOrCreate call of each caller
    dLeft,      \* SpecDedup: getOrCreate calls still to be issued
    initialized,\* CapabilityClient.initialized
    initCall,   \* where a running CapabilityClient.initialize stands
    bootstrapped,\* CapabilityClient.bootstrappedCapabilities
    fallbackMappings, \* config.fallbackMappings
    pending,    \* ResolutionClient.dedup.pending
    flights,    \* registry 'resolve' requests in flight; a revalidation records when the entry it was fired for was written
    pc,         \* SpecRes: where each caller's resolve stands
    call,       \* SpecRes: each caller's resolve in progress, or the outcome it got in the latest step
    hist,       \* SpecRes: per cache key, who wrote the current entry and when (history)
    bg,         \* SpecRes: the background revalidation that failed last, until the callers return (history)
    pool,       \* NatsConnectionPool.connections, in insertion order
    conn,       \* the connections the pool opened and has not closed: their state
    defaultConn, \* NatsConnectionPool.defaultConnection: its state
    poolCfg,    \* ConnectionPoolConfig
    idleTimer,  \* NatsConnectionPool.idleTimer is set
    ppc,        \* SpecPool: where each getOrConnect call stands
    pcall,      \* SpecPool: each caller's getOrConnect: its locals, or the outcome of the latest step
    reaper,     \* SpecPool: when the idle reaper last ran, and the run in progress
    closer,     \* SpecPool: the closeEntry calls a running closeAll awaits, if any
    evicted,    \* SpecLru: the urls whose entry evictIfNeeded has removed (history)
    middleware, \* the middleware array the pipeline is built from (SpecInvoke: extraMiddleware)
    inv,        \* the invocation in progress: where it stands, its envelope, what ran so far
    client,     \* SpecLifecycle: the CapabilityClient's fields natsConnection, ownNatsConnection, connectionPool, invalidationSubscriber, pipeline
    conns,      \* SpecLifecycle: the default-bus connections, supplied by the caller or opened by initialize
    pools,      \* SpecLifecycle: the NatsConnectionPools initialize has built
    icall,      \* SpecLifecycle: the initialize calls and where each stands
    wire,       \* SpecLifecycle: bootstrap requests sent and failed (history)
    ccall,      \* SpecLifecycle: the close call, where it stands and what it has done so far
    subscribers,\* the InvalidationSubscribers built: running, handlers, events each handler got
    discovery,  \* SpecInvalidation: the keys of the discovery cache
    delivered,  \* SpecInvalidation: the change event delivered last, until a cache is written again
    wsubs,      \* SpecWorker: the subscriptions of the worker connection
    manager,    \* SpecWorker: WorkerPoolManager.subscriptions and .config
    reloads,    \* SpecWorker: the reload calls and where each stands
    wmsgs,      \* SpecWorker: the latest request published, who handled it, the responses
    keyed,      \* SpecKey: two buildKey inputs, the configuration and the keys built
    dl          \* SpecDeadline: one call through the deadline middleware

ttlVars   == <<lastGet, shadow>>
dedupVars == <<dPending, dPromise, dCall, dLeft>>
resVars   == <<initialized, initCall, bootstrapped, fallbackMappings, pending, flights, pc, call, hist, bg>>
poolVars  == <<pool, conn, defaultConn, poolCfg, idleTimer, ppc, pcall, reaper, closer,
               evicted>>
invVars   == <<middleware, inv>>
lifeVars  == <<client, conns, pools, icall, wire, ccall>>
subVars   == <<subscribers, discovery, delivered>>
workVars  == <<wsubs, manager, reloads, wmsgs>>
auxVars   == <<keyed, dl>>
vars      == <<now, cfg, cache, ttlVars, dedupVars, resVars, poolVars, invVars,
               lifeVars, subVars, workVars, auxVars>>

-----------------------------------------------------------------------------
(* Bounds of the model *)

MaxTtlTicks == 4      \* SpecTtl: the clock stops after this many ticks
MaxResTicks == 2      \* SpecRes: the clock stops after this many ticks
MaxPoolTicks == 2     \* SpecPool: the clock stops after this many ticks
MaxFlights == 2      \* SpecRes: registry requests in flight at a time
MaxDedupCalls == 3    \* getOrCreate calls issued in one behaviour
MaxPoolConns == 2     \* SpecPool: connections alive (open or draining) at one time

-----------------------------------------------------------------------------
(* JavaScript values *)

Infinity == 10 ^ 9
IsFinite(x) == x < Infinity
\* a + b in IEEE arithmetic as far as the model needs it: Infinity absorbs
Plus(a, b) == IF a >= Infinity \/ b >= Infinity THEN Infinity ELSE a + b

None == <<>>
Some(x) == <<x>>
\* truthiness of an optional string: defined and not ""
Truthy(o) == o # <<>> /\ o[1] # <<>>

RECURSIVE Join(_, _)
\* Array.prototype.join
Join(parts, sep) ==
    IF parts = <<>> THEN <<>>
    ELSE IF Len(parts) = 1 THEN parts[1]
    ELSE parts[1] \o sep \o Join(Tail(parts), sep)

\* String.prototype.startsWith
StartsWith(s, p) == Len(p) <= Len(s) /\ SubSeq(s, 1, Len(p)) = p

-----------------------------------------------------------------------------
(* TTLCache (src/core/src/envelope-schema.ts, lines 59-190) *)

Null == [null |-> TRUE]

\* the index of key in the Map, 0 when absent
RECURSIVE IndexOf(_, _)
IndexOf(c, key) ==
    IF c = <<>> THEN 0
    ELSE IF c[Len(c)].key = key THEN Len(c)
    ELSE IndexOf(SubSeq(c, 1, Len(c) - 1), key)

HasKey(c, key) == IndexOf(c, key) # 0
EntryOf(c, key) == c[IndexOf(c, key)]

\* Map.prototype.delete
MapDelete(c, key) ==
    LET i == IndexOf(c, key) IN
    IF i = 0 THEN c ELSE SubSeq(c, 1, i - 1) \o SubSeq(c, i + 1, Len(c))

\* Map.prototype.set: an existing key keeps its place in the iteration order
MapSet(c, e) ==
    LET i == IndexOf(c, e.key) IN
    IF i = 0 THEN Append(c, e) ELSE [c EXCEPT ![i] = e]

KeysOf(c) == {c[i].key : i \in 1..Len(c)}

GetMiss == [value |-> Null, found |-> FALSE, isStale |-> FALSE, isNegative |-> FALSE]

\* TTLCache.get with the expiry test off by one (an entry counts as expired at expiresAt)
TTLGet_ExpiredAtExpiry(c, key, t, config) ==
    IF ~HasKey(c, key) THEN [res |-> GetMiss, cache |-> c]
    ELSE LET entry == EntryOf(c, key) IN
         IF t >= entry.expiresAt
         THEN IF config.staleWhileRevalidate /\ entry.staleAt # 0 /\ t <= entry.staleAt
              THEN [res |-> [value |-> entry.value, found |-> TRUE, isStale |-> TRUE,
                             isNegative |-> entry.isNegative],
                    cache |-> c]
              ELSE [res |-> GetMiss, cache |-> MapDelete(c, key)]
         ELSE [res |-> [value |-> entry.value, found |-> TRUE, isStale |-> FALSE,
                        isNegative |-> entry.isNegative],
               cache |-> c]

\* TTLCache.get: the result and the Map after it (an expired entry is deleted)
TTLGet(c, key, t, config) ==
    IF ~HasKey(c, key) THEN [res |-> GetMiss, cache |-> c]
    ELSE LET entry == EntryOf(c, key) IN
         IF t > entry.expiresAt
         THEN IF config.staleWhileRevalidate /\ entry.staleAt # 0 /\ t <= entry.staleAt
              THEN [res |-> [value |-> entry.value, found |-> TRUE, isStale |-> TRUE,
                             isNegative |-> entry.isNegative],
                    cache |-> c]
              ELSE [res |-> GetMiss, cache |-> MapDelete(c, key)]
         ELSE [res |-> [value |-> entry.value, found |-> TRUE, isStale |-> FALSE,
                        isNegative |-> entry.isNegative],
               cache |-> c]

\* TTLCache.evictOldest
EvictOldest(c) == IF c = <<>> THEN c ELSE Tail(c)

\* TTLCache.set({key, value, ttlMs?, isNegative, etag}); maxEntries 0 stands for undefined
TTLSet(c, p, t, config) ==
    LET c1 == IF config.maxEntries # 0 /\ Len(c) >= config.maxEntries
              THEN EvictOldest(c) ELSE c
        effectiveTtl == IF p.isNegative THEN config.negativeTtlMs
                        ELSE IF p.ttlMs = None THEN config.defaultTtlMs ELSE p.ttlMs[1]
        expiresAt == Plus(t, effectiveTtl)
        staleAt == IF config.staleWhileRevalidate
                   THEN Plus(expiresAt, config.staleWindowMs) ELSE 0
    IN MapSet(c1, [key |-> p.key, value |-> p.value, expiresAt |-> expiresAt,
                   staleAt |-> staleAt, isNegative |-> p.isNegative, etag |-> p.etag])

\* TTLCache.setNegative
TTLSetNegative(c, key, t, config) ==
    TTLSet(c, [key |-> key, value |-> Null, ttlMs |-> None, isNegative |-> TRUE,
               etag |-> None], t, config)

\* TTLCache.invalidate
TTLInvalidate(c, key) == MapDelete(c, key)

\* TTLCache.clear
TTLClear(c) == <<>>

-----------------------------------------------------------------------------
(* The clock *)

\* time passes: one tick, up to the bound
Advance(tickMs, maxTicks) ==
    /\ now < maxTicks * tickMs
    /\ now' = now + tickMs

-----------------------------------------------------------------------------
(* Values every specification gives the variables of the other subsystems *)

IdleTtl   == lastGet = None /\ shadow = None
IdleDedup == dPending = {} /\ dPromise = <<>> /\ dCall = <<>> /\ dLeft = 0
IdleRes   ==
    /\ initialized = FALSE /\ initCall = "none" /\ bootstrapped = {} /\ fallbackMappings = {}
    /\ pending = {} /\ flights = {} /\ pc = <<>> /\ call = <<>> /\ hist = {} /\ bg = None
IdlePool  ==
    /\ pool = <<>> /\ conn = <<>> /\ defaultConn = None /\ poolCfg = None /\ idleTimer = FALSE
    /\ ppc = <<>> /\ pcall = <<>> /\ reaper = None /\ closer = None /\ evicted = None
IdleInv   == middleware = <<>> /\ inv = None
IdleLife  ==
    /\ client = None /\ conns = <<>> /\ pools = <<>> /\ icall = <<>> /\ wire = None
    /\ ccall = None
IdleSub   == subscribers = <<>> /\ discovery = {} /\ delivered = None
IdleWork  == wsubs = <<>> /\ manager = None /\ reloads = <<>> /\ wmsgs = <<>>
IdleAux   == keyed = None /\ dl = None

-----------------------------------------------------------------------------
(* SpecTtl: one TTLCache, its operations called at arbitrary times *)

TtlKeys == {<<"k">>, <<"j">>}
TtlArgs == {None, Some(0), Some(1000), Some(Infinity)}

\* the configurations the cache is constructed with
TtlConfigs ==
    {[defaultTtlMs |-> 2000, negativeTtlMs |-> 1000, staleWhileRevalidate |-> swr,
      staleWindowMs |-> 1000, maxEntries |-> m,
      includeTenantInKey |-> TRUE, includeEnvInKey |-> TRUE] :
        swr \in BOOLEAN, m \in {0, 2}}

\* history: keys that left the Map other than by expiring lose their record
ShadowAfter(c2, key, rec) ==
    [k \in TtlKeys |->
        IF k = key THEN rec
        ELSE IF k \in KeysOf(cache) /\ k \notin KeysOf(c2) THEN None
        ELSE shadow[k]]

InitTtl ==
    /\ now = 0
    /\ cfg \in TtlConfigs
    /\ cache = <<>>
    /\ lastGet = None
    /\ shadow = [k \in TtlKeys |-> None]
    /\ IdleDedup /\ IdleRes /\ IdlePool /\ IdleInv
    /\ IdleLife /\ IdleSub /\ IdleWork /\ IdleAux

\* cache.set({key, value, ttlMs})
TtlSetCall(key, ttlMs) ==
    LET c2 == TTLSet(cache, [key |-> key, value |-> "v", ttlMs |-> ttlMs,
                             isNegative |-> FALSE, etag |-> None], now, cfg)
        t  == IF ttlMs = None THEN cfg.defaultTtlMs ELSE ttlMs[1]
    IN /\ cache' = c2
       /\ shadow' = ShadowAfter(c2, key, Some([s |-> now, t |-> t]))
       /\ lastGet' = None
       /\ UNCHANGED <<now, cfg, dedupVars, resVars, poolVars, invVars, lifeVars, subVars, workVars, auxVars>>

\* cache.setNegative(key)
TtlSetNegativeCall(key) ==
    LET c2 == TTLSetNegative(cache, key, now, cfg) IN
    /\ cache' = c2
    /\ shadow' = ShadowAfter(c2, key, Some([s |-> now, t |-> cfg.negativeTtlMs]))
    /\ lastGet' = None
    /\ UNCHANGED <<now, cfg, dedupVars, resVars, poolVars, invVars, lifeVars, subVars, workVars, auxVars>>

\* cache.get(key)
TtlGetCall(key) ==
    LET r == TTLGet(cache, key, now, cfg) IN
    /\ cache' = r.cache
    /\ lastGet' = Some([key |-> key, res |-> r.res, at |-> now, set |-> shadow[key],
                        kept |-> HasKey(r.cache, key)])
    /\ UNCHANGED <<now, cfg, shadow, dedupVars, resVars, poolVars, invVars,
                   lifeVars, subVars, workVars, auxVars>>

\* cache.invalidate(key)
TtlInvalidateCall(key) ==
    /\ HasKey(cache, key)
    /\ cache' = TTLInvalidate(cache, key)
    /\ shadow' = [shadow EXCEPT ![key] = None]
    /\ lastGet' = None
    /\ UNCHANGED <<now, cfg, dedupVars, resVars, poolVars, invVars, lifeVars, subVars, workVars, auxVars>>

\* cache.clear()
TtlClearCall ==
    /\ cache # <<>>
    /\ cache' = TTLClear(cache)
    /\ shadow' = [k \in TtlKeys |-> IF k \in KeysOf(cache) THEN None ELSE shadow[k]]
    /\ lastGet' = None
    /\ UNCHANGED <<now, cfg, dedupVars, resVars, poolVars, invVars, lifeVars, subVars, workVars, auxVars>>

TtlTick ==
    /\ Advance(1000, MaxTtlTicks)
    /\ lastGet' = None
    /\ UNCHANGED <<cfg, cache, shadow, dedupVars, resVars, poolVars, invVars,
                   lifeVars, subVars, workVars, auxVars>>

NextTtl ==
    \/ \E key \in TtlKeys, ttlMs \in TtlArgs : TtlSetCall(key, ttlMs)
    \/ \E key \in TtlKeys : TtlSetNegativeCall(key)
    \/ \E key \in TtlKeys : TtlGetCall(key)
    \/ \E key \in TtlKeys : TtlInvalidateCall(key)
    \/ TtlClearCall
    \/ TtlTick

SpecTtl == InitTtl /\ [][NextTtl]_vars

\* C8: a key set at time s with finite TTL t is found fresh by every get up to
\* s+t, found stale from then up to s+t+staleWindowMs exactly when
\* stale-while-revalidate is enabled, and not found (and no longer in the Map)
\* by every get after that.
C8_TtlLifecycle ==
    (lastGet # None /\ lastGet[1].set # None /\ IsFinite(lastGet[1].set[1].t)) =>
        LET g == lastGet[1]
            expiry == g.set[1].s + g.set[1].t
            staleEnd == expiry + cfg.staleWindowMs
        IN /\ g.at <= expiry => (g.res.found /\ ~g.res.isStale)
           /\ (g.at > expiry /\ g.at <= staleEnd) =>
                 IF cfg.staleWhileRevalidate
                 THEN g.res.found /\ g.res.isStale
                 ELSE ~g.res.found /\ ~g.kept
           /\ g.at > staleEnd => (~g.res.found /\ ~g.kept)

\* a get inside the stale window of a key set with a finite TTL
C8_Witness ==
    /\ lastGet # None /\ lastGet[1].set # None
    /\ IsFinite(lastGet[1].set[1].t)
    /\ lastGet[1].at > lastGet[1].set[1].s + lastGet[1].set[1].t
    /\ lastGet[1].res.isStale

-----------------------------------------------------------------------------
(* InFlightDedup (src/client/node/src/cache/dedup.ts) *)

\* pending.get(key): the promises stored under key (none or one)
DedupExisting(pend, key) == {e \in pend : e.key = key}

\* getOrCreate that never looks at the pending map
DedupGetOrCreate_NoLookup(pend, key, id) ==
    [pending |-> {e \in pend : e.key # key} \cup {[key |-> key, id |-> id]},
     promise |-> id, created |-> TRUE]

\* getOrCreate(key, factory), where id names the promise factory() would return:
\* the pending map after the call, the promise returned, whether factory ran
DedupGetOrCreate(pend, key, id) ==
    IF DedupExisting(pend, key) # {}
    THEN [pending |-> pend,
          promise |-> (CHOOSE e \in DedupExisting(pend, key) : TRUE).id,
          created |-> FALSE]
    ELSE [pending |-> pend \cup {[key |-> key, id |-> id]},
          promise |-> id, created |-> TRUE]

\* a finally callback that leaves the entry in the map
DedupFinally_Keep(pend, key) == pend

\* the finally callback: pending.delete(key)
DedupFinally(pend, key) == {e \in pend : e.key # key}

-----------------------------------------------------------------------------
(* SpecDedup: callers of one InFlightDedup; the factory is a request that    *)
(* settles in a later turn, with a value or a rejection                      *)

DedupCallers == {"c1", "c2", "c3"}
DedupKeys == {<<"k">>, <<"j">>}
DedupOutcomes == {[ok |-> TRUE, value |-> "v1"], [ok |-> TRUE, value |-> "v2"],
                  [ok |-> FALSE, value |-> "error"]}

InitDedup ==
    /\ now = 0 /\ cfg = None /\ cache = <<>>
    /\ dPending = {}
    /\ dPromise = <<>>
    /\ dCall = [c \in DedupCallers |-> [pc |-> "idle"]]
    /\ dLeft = MaxDedupCalls
    /\ IdleTtl /\ IdleRes /\ IdlePool /\ IdleInv
    /\ IdleLife /\ IdleSub /\ IdleWork /\ IdleAux

\* caller c calls getOrCreate(key, factory) and awaits the promise it returns
DedupCall(c, key) ==
    LET r == DedupGetOrCreate(dPending, key, Len(dPromise) + 1) IN
    /\ dCall[c].pc = "idle"
    /\ dLeft > 0
    /\ dLeft' = dLeft - 1
    /\ dPending' = r.pending
    /\ dPromise' = IF r.created
                   THEN Append(dPromise, [key |-> key, settled |-> FALSE, outcome |-> None])
                   ELSE dPromise
    /\ dCall' = [dCall EXCEPT ![c] = [pc |-> "waiting", key |-> key, promise |-> r.promise]]
    /\ UNCHANGED <<now, cfg, cache, ttlVars, resVars, poolVars, invVars,
                   lifeVars, subVars, workVars, auxVars>>

\* the factory's promise p settles: the finally callback runs and every caller
\* awaiting p continues with the outcome
DedupSettle(p, outcome) ==
    /\ p \in 1..Len(dPromise)
    /\ ~dPromise[p].settled
    /\ dPromise' = [dPromise EXCEPT ![p] = [@ EXCEPT !.settled = TRUE, !.outcome = Some(outcome)]]
    /\ dPending' = DedupFinally(dPending, dPromise[p].key)
    /\ dCall' = [c \in DedupCallers |->
                    IF dCall[c].pc = "waiting" /\ dCall[c].promise = p
                    THEN [pc |-> "done", key |-> dCall[c].key, promise |-> p,
                          outcome |-> outcome]
                    ELSE dCall[c]]
    /\ UNCHANGED <<now, cfg, cache, ttlVars, dLeft, resVars, poolVars, invVars,
                   lifeVars, subVars, workVars, auxVars>>

\* the caller goes on and may call again
DedupReturn(c) ==
    /\ dCall[c].pc = "done"
    /\ dCall' = [dCall EXCEPT ![c] = [pc |-> "idle"]]
    /\ UNCHANGED <<now, cfg, cache, ttlVars, dPending, dPromise, dLeft, resVars, poolVars, invVars,
                   lifeVars, subVars, workVars, auxVars>>

NextDedup ==
    \/ \E c \in DedupCallers, key \in DedupKeys : DedupCall(c, key)
    \/ \E p \in 1..MaxDedupCalls, outcome \in DedupOutcomes : DedupSettle(p, outcome)
    \/ \E c \in DedupCallers : DedupReturn(c)

SpecDedup == InitDedup /\ [][NextDedup]_vars

\* the factory invocations of key that have not settled
DedupInFlight(key) ==
    {p \in 1..Len(dPromise) : dPromise[p].key = key /\ ~dPromise[p].settled}

\* C2: getOrCreate calls of one key that are in flight together share one factory
\* invocation (at most one unsettled factory promise per key, and every waiting
\* caller awaits it), and callers of one invocation observe the same outcome.
C2_DedupOnce ==
    /\ \A key \in DedupKeys : Cardinality(DedupInFlight(key)) <= 1
    /\ \A c \in DedupCallers :
          dCall[c].pc = "waiting" => dCall[c].promise \in DedupInFlight(dCall[c].key)
    /\ \A c1, c2 \in DedupCallers :
          (dCall[c1].pc = "done" /\ dCall[c2].pc = "done"
             /\ dCall[c1].promise = dCall[c2].promise)
          => dCall[c1].outcome = dCall[c2].outcome
    /\ \A c \in DedupCallers :
          dCall[c].pc = "done" => dPromise[dCall[c].promise].outcome = Some(dCall[c].outcome)

\* a burst of three calls of one key has been served by one factory invocation
C2_Witness ==
    /\ \A c \in DedupCallers : dCall[c].pc = "done" /\ dCall[c].promise = 1
    /\ Len(dPromise) = 1

\* C29: the pending entry of a key is gone once its factory has settled, with a
\* value or with a rejection (the map holds unsettled promises only), so a
\* getOrCreate of a key none of whose factories is unsettled runs its factory
\* again and awaits the new promise, not the settled one.
C29_RetryAfterSettle ==
    [][/\ \A e \in dPending' : ~dPromise'[e.id].settled
       /\ \A c \in DedupCallers :
             (dCall[c].pc = "idle" /\ dCall'[c].pc = "waiting"
                /\ DedupInFlight(dCall'[c].key) = {})
             => /\ Len(dPromise') = Len(dPromise) + 1
                /\ dCall'[c].promise = Len(dPromise')
                /\ ~dPromise'[dCall'[c].promise].settled]_vars

\* a key's factory has failed, another one of the same key has succeeded, and a
\* caller waits for a third invocation of that key
C29_Witness ==
    /\ Len(dPromise) = 3
    /\ \A p \in 1..3 : dPromise[p].key = dPromise[1].key
    /\ dPromise[1].settled /\ ~dPromise[1].outcome[1].ok
    /\ dPromise[2].settled /\ dPromise[2].outcome[1].ok
    /\ \E c \in DedupCallers : dCall[c].pc = "waiting" /\ dCall[c].promise = 3

-----------------------------------------------------------------------------
(* ResolutionCache (src/client/node/src/resolution/cache.ts) *)

\* the optional scoping parts of a key: t:<tenantId>, e:<env>
ScopeParts(ctx, config) ==
    (IF config.includeTenantInKey /\ ctx # None /\ Truthy(ctx[1].tenantId)
     THEN << <<"t", ":">> \o ctx[1].tenantId[1] >> ELSE <<>>)
    \o
    (IF config.includeEnvInKey /\ ctx # None /\ Truthy(ctx[1].env)
     THEN << <<"e", ":">> \o ctx[1].env[1] >> ELSE <<>>)

\* ResolutionCache.buildKey({cap, ver, canonicalIdentity, ctx})
BuildKey(p, config) ==
    IF Truthy(p.canonicalIdentity)
    THEN Join(<<p.canonicalIdentity[1]>> \o ScopeParts(p.ctx, config), <<"|">>)
    ELSE Join(<<p.cap>>
              \o (IF Truthy(p.ver) THEN << <<"v", ":">> \o p.ver[1] >> ELSE <<>>)
              \o ScopeParts(p.ctx, config),
              <<"|">>)

\* the {cap, ver, ctx} object the cache methods are called with: it has no canonicalIdentity
CacheParams(cap, ver, ctx) ==
    [cap |-> cap, ver |-> ver, ctx |-> ctx, canonicalIdentity |-> None]

\* ResolutionCache.invalidateCapability(app, name): TTLCache.invalidateMatching deletes
\* every key that starts with `${app}.${name}`
RCInvalidateCapability(c, app, name) ==
    SelectSeq(c, LAMBDA e : ~StartsWith(e.key, app \o <<".">> \o name))

\* the reference forms parseReference accepts for one capability of one app
\* (part_010 lines 6-9): app/cap, @alias/app/cap, cap:@alias/app/cap@version
RefForms(app, name) ==
    {app \o <<"/">> \o name,
     <<"@", "m", "/">> \o app \o <<"/">> \o name,
     <<"c", "a", "p", ":", "@", "m", "/">> \o app \o <<"/">> \o name \o <<"@", "1">>}

\* ResolutionCache.get
RCGet(c, p, t, config) == TTLGet(c, BuildKey(p, config), t, config)

\* ResolutionCache.set that takes ttlSeconds for milliseconds
RCSet_TtlNotScaled(c, p, value, ttlMs, t, config) ==
    TTLSet(c, [key |-> BuildKey(p, config), value |-> value,
               ttlMs |-> Some(IF ttlMs # None THEN ttlMs[1]
                              ELSE IF value.ttlSeconds = 0 THEN Infinity
                              ELSE value.ttlSeconds),
               isNegative |-> FALSE, etag |-> Some(value.etag)], t, config)

\* ResolutionCache.set({cap, ver, ctx, value, ttlMs?})
RCSet(c, p, value, ttlMs, t, config) ==
    TTLSet(c, [key |-> BuildKey(p, config), value |-> value,
               ttlMs |-> Some(IF ttlMs # None THEN ttlMs[1]
                              ELSE IF value.ttlSeconds = 0 THEN Infinity
                              ELSE value.ttlSeconds * 1000),
               isNegative |-> FALSE, etag |-> Some(value.etag)], t, config)

\* setNegative that marks the capability, not the (cap, ver, ctx) key
RCSetNegative_CapOnly(c, p, t, config) == TTLSetNegative(c, p.cap, t, config)

\* ResolutionCache.setNegative
RCSetNegative(c, p, t, config) == TTLSetNegative(c, BuildKey(p, config), t, config)

-----------------------------------------------------------------------------
(* Strings and numbers of buildFallbackResult                               *)
(* (src/client/node/src/resolution/client.ts, lines 165-180)                 *)

Digits == <<"0", "1", "2", "3", "4", "5", "6", "7", "8", "9">>
IsDigit(ch) == \E i \in 1..10 : Digits[i] = ch
DigitValue(ch) == (CHOOSE i \in 1..10 : Digits[i] = ch) - 1

RECURSIVE SplitAcc(_, _, _)
SplitAcc(s, sep, cur) ==
    IF s = <<>> THEN <<cur>>
    ELSE IF Head(s) = sep THEN <<cur>> \o SplitAcc(Tail(s), sep, <<>>)
    ELSE SplitAcc(Tail(s), sep, Append(cur, Head(s)))

\* String.prototype.split(sep), sep one character
Split(s, sep) == SplitAcc(s, sep, <<>>)

RECURSIVE ReplaceFirst(_, _)
\* String.prototype.replace(ch, ""): removes the first occurrence of ch
ReplaceFirst(s, ch) ==
    IF s = <<>> THEN <<>>
    ELSE IF Head(s) = ch THEN Tail(s)
    ELSE <<Head(s)>> \o ReplaceFirst(Tail(s), ch)

RECURSIVE DigitsPrefix(_)
DigitsPrefix(s) ==
    IF s = <<>> \/ ~IsDigit(Head(s)) THEN <<>>
    ELSE <<Head(s)>> \o DigitsPrefix(Tail(s))

RECURSIVE DigitsToNat(_, _)
DigitsToNat(ds, acc) ==
    IF ds = <<>> THEN acc ELSE DigitsToNat(Tail(ds), acc * 10 + DigitValue(Head(ds)))

\* parseInt(s, 10): None stands for NaN
ParseInt(s) ==
    LET neg  == s # <<>> /\ Head(s) = "-"
        body == IF s # <<>> /\ (Head(s) = "-" \/ Head(s) = "+") THEN Tail(s) ELSE s
        ds   == DigitsPrefix(body)
    IN IF ds = <<>> THEN None
       ELSE Some(IF neg THEN 0 - DigitsToNat(ds, 0) ELSE DigitsToNat(ds, 0))

RECURSIVE NatToString(_)
NatToString(n) ==
    IF n < 10 THEN <<Digits[n + 1]>> ELSE NatToString(n \div 10) \o <<Digits[(n % 10) + 1]>>

\* `${n}` of an integer
NumToString(n) == IF n < 0 THEN <<"-">> \o NatToString(0 - n) ELSE NatToString(n)

\* parseInt(majorStr.replace("v", ""), 10) || 1
FallbackMajor(subject) ==
    LET parts    == Split(subject, ".")
        majorStr == parts[Len(parts)]
        n        == ParseInt(ReplaceFirst(majorStr, "v"))
    IN IF n = None \/ n[1] = 0 THEN 1 ELSE n[1]

\* ResolutionClient.buildFallbackResult(cap, subject)
BuildFallbackResult(capName, subject, defaultNatsUrl) ==
    LET major == FallbackMajor(subject) IN
    [canonicalIdentity |-> <<"c", "a", "p", ":", "@", "m", "a", "i", "n", "/">> \o capName
                           \o <<"@">> \o NumToString(major) \o <<".", "0", ".", "0">>,
     natsUrl |-> defaultNatsUrl,
     subject |-> subject,
     major |-> major,
     resolvedVersion |-> NumToString(major) \o <<".", "0", ".", "0">>,
     status |-> "active",
     ttlSeconds |-> 60,
     etag |-> "fallback"]

-----------------------------------------------------------------------------
(* CapabilityClient and ResolutionClient                                    *)
(* (src/unnamed/part_009, src/client/node/src/resolution/client.ts,          *)
(*  src/client/src/middleware/resolve.ts)                                    *)

ResCallers  == {"a", "b"}
CallerOrder == <<"a", "b">>

\* config.registryCap and one application capability
RegistryCap == <<"s", ".", "r">>
AppCap      == <<"a", "/", "c">>
ResCaps     == {RegistryCap, AppCap}

\* config.natsUrl ?? "nats://127.0.0.1:4222"
DefaultNatsUrl == <<"n", "a", "t", "s", ":", "/", "/", "d">>

\* the CapabilityClientConfig of the specification (seconds, as in the config)
ClientConfig ==
    [resolutionCacheTtlSeconds |-> 2, negativeCacheTtlSeconds |-> 1,
     staleWhileRevalidate |-> TRUE, staleWindowSeconds |-> 1,
     defaultTenantId |-> None]

\* the ResolutionCacheConfig initialize() builds, merged with the defaults
ResolutionCacheConfigOf(config) ==
    [defaultTtlMs |-> config.resolutionCacheTtlSeconds * 1000,
     negativeTtlMs |-> config.negativeCacheTtlSeconds * 1000,
     staleWhileRevalidate |-> config.staleWhileRevalidate,
     staleWindowMs |-> config.staleWindowSeconds * 1000,
     maxEntries |-> 10000,
     includeTenantInKey |-> TRUE, includeEnvInKey |-> TRUE]

\* config.fallbackMappings: none, or a subject for the application capability
FallbackChoices ==
    {{}} \cup {{[cap |-> AppCap, subject |-> sub]} :
               sub \in {<<"c", ".", "v", "2">>, <<"c", ".", "v", "0">>}}

\* fallbackMappings[cap]
FallbackSubject(mappings, capName) ==
    IF \E e \in mappings : e.cap = capName
    THEN Some((CHOOSE e \in mappings : e.cap = capName).subject)
    ELSE None

\* the capability sets a bootstrap response may carry
BootstrapReplies == {<<>>, <<RegistryCap>>, <<RegistryCap, AppCap>>, <<AppCap>>}

\* the ResolveOutput fetchRemoteBootstrap builds for one entry of the response
BootstrapValue(capRef) ==
    [canonicalIdentity |-> <<"c", "a", "p", ":">> \o capRef,
     natsUrl |-> DefaultNatsUrl,
     subject |-> <<"b", ".">> \o capRef,
     major |-> 1,
     resolvedVersion |-> <<"1", ".", "0", ".", "0">>,
     status |-> "active",
     ttlSeconds |-> 0,
     etag |-> "bootstrap"]

\* a ResolveOutput of the registry
RegistryValue(etag, ttlSeconds) ==
    [canonicalIdentity |-> <<"c", "a", "p", ":", "r">>,
     natsUrl |-> DefaultNatsUrl,
     subject |-> <<"c", ".", "v", "1">>,
     major |-> 1,
     resolvedVersion |-> <<"1", ".", "0", ".", "0">>,
     status |-> "active",
     ttlSeconds |-> ttlSeconds,
     etag |-> etag]

\* the answers of the registry to a 'resolve' request
RegistryOutcomes ==
    {[ok |-> TRUE, result |-> RegistryValue("e1", 1), code |-> ""],
     [ok |-> TRUE, result |-> RegistryValue("e2", 0), code |-> ""],
     [ok |-> FALSE, result |-> Null, code |-> "UNAVAILABLE"]}

\* history: key was written by `by` at time t
Wrote(h, key, by, t) ==
    {x \in h : x.key # key} \cup {[key |-> key, by |-> by, at |-> t]}

\* history: who wrote the entry a get of key finds, with the entry's value
Snapshot(c, h, key) ==
    IF HasKey(c, key) /\ \E x \in h : x.key = key
    THEN LET x == CHOOSE y \in h : y.key = key IN
         Some([by |-> x.by, at |-> x.at, value |-> EntryOf(c, key).value])
    ELSE None

RECURSIVE SeedBootstrap(_, _, _, _)
\* the loop of fetchRemoteBootstrap over the response's entries
SeedBootstrap(c, caps, t, config) ==
    IF caps = <<>> THEN c
    ELSE SeedBootstrap(RCSet(c, CacheParams(Head(caps), None, None), BootstrapValue(Head(caps)),
                             Some(Infinity), t, config),
                       Tail(caps), t, config)

RECURSIVE SeedHistory(_, _, _, _)
SeedHistory(h, caps, t, config) ==
    IF caps = <<>> THEN h
    ELSE SeedHistory(Wrote(h, BuildKey(CacheParams(Head(caps), None, None), config), "bootstrap", t),
                     Tail(caps), t, config)

\* CapabilityClient.getRegistrySubject: the subject (None when it throws) and the cache after the get
GetRegistrySubject(c, t, config) ==
    LET g == RCGet(c, CacheParams(RegistryCap, None, None), t, config) IN
    [cache |-> g.cache,
     subject |-> IF g.res.found /\ ~g.res.isNegative /\ g.res.value.subject # <<>>
                 THEN Some(g.res.value.subject) ELSE None]

\* invoke: ctx.tenantId || config.defaultTenantId || "default"
InvokeTenant(ctxTenant, config) ==
    IF Truthy(ctxTenant) THEN ctxTenant[1]
    ELSE IF Truthy(config.defaultTenantId) THEN config.defaultTenantId[1]
    ELSE <<"d", "e", "f", "a", "u", "l", "t">>

\* resolve middleware: ctx of the resolve call
MiddlewareCtx(tenantId) ==
    IF tenantId # <<>> THEN Some([tenantId |-> Some(tenantId), env |-> None]) ELSE None

NoResult == [ok |-> FALSE, value |-> Null, code |-> "", src |-> "none"]
NoCall ==
    [via |-> "none", cap |-> <<>>, ver |-> None, ctx |-> None, key |-> <<>>,
     pre |-> None, flight |-> 0, reval |-> 0, issued |-> FALSE, res |-> NoResult]

\* resolveFromRegistryWithCache after the awaited fetch settled (lines 125-139), for caller c;
\* st = [cache, hist, call]
AfterFetch(st, c, o, t, config, mappings) ==
    LET k  == st.call[c]
        p  == CacheParams(k.cap, k.ver, k.ctx)
        fb == FallbackSubject(mappings, k.cap)
    IN IF o.ok
       THEN [cache |-> RCSet(st.cache, p, o.result, None, t, config),
             hist  |-> Wrote(st.hist, k.key, "fetch", t),
             call  |-> [st.call EXCEPT ![c].res =
                           [ok |-> TRUE, value |-> o.result, code |-> "", src |-> "registry"]]]
       ELSE IF Truthy(fb)
       THEN [cache |-> st.cache,
             hist  |-> st.hist,
             call  |-> [st.call EXCEPT ![c].res =
                           [ok |-> TRUE,
                            value |-> BuildFallbackResult(k.cap, fb[1], DefaultNatsUrl),
                            code |-> "", src |-> "fallback"]]]
       ELSE [cache |-> RCSetNegative(st.cache, p, t, config),
             hist  |-> Wrote(st.hist, k.key, "negative", t),
             call  |-> [st.call EXCEPT ![c].res =
                           [ok |-> FALSE, value |-> Null, code |-> o.code,
                            src |-> "registry-error"]]]

RECURSIVE SettleWaiters(_, _, _, _, _, _)
\* the continuations of all callers awaiting one promise run in the turn that settles it
SettleWaiters(st, ws, o, t, config, mappings) ==
    IF ws = <<>> THEN st
    ELSE SettleWaiters(AfterFetch(st, Head(ws), o, t, config, mappings),
                       Tail(ws), o, t, config, mappings)

\* the callers awaiting the promise of registry request id
Waiters(id) == SelectSeq(CallerOrder, LAMBDA c : pc[c] = "await" /\ call[c].flight = id)

\* identities of the promises and requests alive; a new one takes the least unused
UsedIds ==
    {f.id : f \in flights} \cup {e.id : e \in pending}
    \cup {call[c].flight : c \in {x \in ResCallers : pc[x] = "await"}}
FreshId ==
    CHOOSE i \in 1..(Cardinality(UsedIds) + 1) :
        i \notin UsedIds /\ \A j \in 1..(i - 1) : j \in UsedIds

\* no outcome of a resolve is on display: the callers have taken what the latest step returned
Quiet == \A c \in ResCallers : pc[c] = "await" \/ call[c] = NoCall

\* the history keeps the keys the cache holds
Kept(h, c) == {x \in h : HasKey(c, x.key)}

\* callers are interchangeable: a new call is the first idle caller's
FirstIdle(c) ==
    /\ pc[c] = "idle"
    /\ \A i, j \in 1..Len(CallerOrder) :
          (CallerOrder[j] = c /\ i < j) => pc[CallerOrder[i]] # "idle"

\* ResolutionClient.resolve(input) up to its first await on the registry
ResolveCall(c, via, input) ==
    LET p   == CacheParams(input.cap, input.ver, input.ctx)
        key == BuildKey(p, cfg)
        g   == RCGet(cache, p, now, cfg)
        k0  == [NoCall EXCEPT !.via = via, !.cap = input.cap, !.ver = input.ver,
                              !.ctx = input.ctx, !.key = key,
                              !.pre = Snapshot(cache, hist, key)]
    IN
    /\ initialized /\ FirstIdle(c) /\ Quiet
    /\ IF g.res.found /\ ~g.res.isStale
       THEN /\ cache' = g.cache
            /\ hist' = Kept(hist, g.cache)
            /\ call' = [call EXCEPT ![c] = [k0 EXCEPT !.res =
                          IF g.res.isNegative
                          THEN [ok |-> FALSE, value |-> Null, code |-> "NOT_FOUND",
                                src |-> "negative-hit"]
                          ELSE [ok |-> TRUE, value |-> g.res.value, code |-> "",
                                src |-> "hit"]]]
            /\ UNCHANGED <<pending, flights, pc>>
       ELSE IF g.res.found /\ g.res.isStale /\ ~g.res.isNegative
       THEN \* revalidateInBackground(input, cacheParams), then return cached.value
            LET r == GetRegistrySubject(g.cache, now, cfg) IN
            /\ r.subject # None => Cardinality(flights) < MaxFlights
            /\ cache' = r.cache
            /\ hist' = Kept(hist, r.cache)
            /\ flights' = IF r.subject = None THEN flights
                          ELSE flights \cup {[id |-> FreshId, kind |-> "reval",
                                              key |-> key, input |-> p,
                                              read |-> Snapshot(cache, hist, key)[1].at,
                                              old |-> FALSE]}
            /\ call' = [call EXCEPT ![c] = [k0 EXCEPT
                          !.reval = IF r.subject = None THEN 0 ELSE FreshId,
                          !.res = [ok |-> TRUE, value |-> g.res.value, code |-> "",
                                   src |-> "stale"]]]
            /\ UNCHANGED <<pending, pc>>
       ELSE LET d == DedupGetOrCreate(pending, key, FreshId) IN
            IF ~d.created
            THEN /\ cache' = g.cache
                 /\ hist' = Kept(hist, g.cache)
                 /\ pc' = [pc EXCEPT ![c] = "await"]
                 /\ call' = [call EXCEPT ![c] = [k0 EXCEPT !.flight = d.promise]]
                 /\ UNCHANGED <<pending, flights>>
            ELSE LET r == GetRegistrySubject(g.cache, now, cfg) IN
                 IF r.subject = None
                 THEN \* remoteCall throws: the promise is rejected within this turn
                      LET st == AfterFetch([cache |-> r.cache, hist |-> hist,
                                            call |-> [call EXCEPT ![c] = k0]], c,
                                           [ok |-> FALSE, result |-> Null,
                                            code |-> "NO_REGISTRY"],
                                           now, cfg, fallbackMappings) IN
                      /\ cache' = st.cache
                      /\ hist' = Kept(st.hist, st.cache)
                      /\ call' = st.call
                      /\ pending' = DedupFinally(d.pending, key)
                      /\ UNCHANGED <<flights, pc>>
                 ELSE /\ Cardinality(flights) < MaxFlights
                      /\ cache' = r.cache
                      /\ hist' = Kept(hist, r.cache)
                      /\ pending' = d.pending
                      /\ flights' = flights \cup {[id |-> FreshId, kind |-> "fetch",
                                                   key |-> key, input |-> p,
                                                   read |-> 0, old |-> FALSE]}
                      /\ pc' = [pc EXCEPT ![c] = "await"]
                      /\ call' = [call EXCEPT ![c] = [k0 EXCEPT !.flight = FreshId,
                                                                       !.issued = TRUE]]
    /\ UNCHANGED <<now, cfg, initialized, initCall, bootstrapped, fallbackMappings, bg,
                   ttlVars, dedupVars, poolVars, invVars, lifeVars, subVars, workVars, auxVars>>

-----------------------------------------------------------------------------
(* SpecRes: one CapabilityClient, its resolution cache and the registry *)

ResVersions   == {None}
InvokeCaps    == {AppCap}
InvokeTenants == {None, Some(<<>>)}

InitClient(mappings) ==
    /\ now = 0 /\ cfg = None /\ cache = <<>>
    /\ IdleTtl /\ IdleDedup /\ IdlePool /\ IdleInv
    /\ IdleLife /\ IdleSub /\ IdleWork /\ IdleAux
    /\ initialized = FALSE /\ initCall = "none" /\ bootstrapped = {}
    /\ fallbackMappings \in mappings
    /\ pending = {} /\ flights = {}
    /\ pc = [c \in ResCallers |-> "idle"]
    /\ call = [c \in ResCallers |-> NoCall]
    /\ hist = {} /\ bg = None

\* initialize() up to the bootstrap request
InitializeStart ==
    /\ ~initialized /\ initCall = "none"
    /\ initCall' = "bootstrap"
    /\ cfg' = ResolutionCacheConfigOf(ClientConfig)
    /\ cache' = <<>>
    /\ hist' = {}
    /\ UNCHANGED <<now, initialized, bootstrapped, fallbackMappings, bg, pending, flights,
                   pc, call, ttlVars, dedupVars, poolVars, invVars, lifeVars, subVars, workVars, auxVars>>

\* the bootstrap response arrives: fetchRemoteBootstrap seeds the cache, initialize() completes
BootstrapReply(caps) ==
    /\ initCall = "bootstrap"
    /\ initCall' = "none"
    /\ bootstrapped' = {caps[i] : i \in 1..Len(caps)}
    /\ cache' = SeedBootstrap(cache, caps, now, cfg)
    /\ hist' = SeedHistory(hist, caps, now, cfg)
    /\ initialized' = (caps # <<>>)
    /\ UNCHANGED <<now, cfg, fallbackMappings, bg, pending, flights, pc, call,
                   ttlVars, dedupVars, poolVars, invVars, lifeVars, subVars, workVars, auxVars>>

\* CapabilityClient.resolve(cap, ver)
ClientResolve(c, capName, ver) ==
    ResolveCall(c, "resolve", [cap |-> capName, ver |-> ver, ctx |-> None])

\* CapabilityClient.invoke(capRef, params, ctx) up to the resolve middleware's resolve call
Invoke(c, capRef, ctxTenant) ==
    ResolveCall(c, "invoke",
                [cap |-> capRef, ver |-> None,
                 ctx |-> MiddlewareCtx(InvokeTenant(ctxTenant, ClientConfig))])

\* a revalidation whose failure is cached like the failure of an awaited fetch
RevalidateSettled_NegativeOnFailure(c, f, o, t, config) ==
    IF o.ok THEN RCSet(c, f.input, o.result, None, t, config)
    ELSE RCSetNegative(c, f.input, t, config)

\* revalidateInBackground's then / catch (lines 153-162): the result is stored, a failure
\* is logged
RevalidateSettled(c, f, o, t, config) ==
    IF o.ok THEN RCSet(c, f.input, o.result, None, t, config) ELSE c

\* the registry answers request f (or the request times out)
RegistryReply(f, o) ==
    /\ f \in flights /\ Quiet
    /\ flights' = flights \ {f}
    /\ IF f.kind = "fetch"
       THEN LET st == SettleWaiters([cache |-> cache, hist |-> hist, call |-> call],
                                    Waiters(f.id), o, now, cfg, fallbackMappings) IN
            /\ pending' = DedupFinally(pending, f.key)
            /\ cache' = st.cache /\ hist' = st.hist /\ call' = st.call
            /\ pc' = [c \in ResCallers |->
                        IF pc[c] = "await" /\ call[c].flight = f.id THEN "idle" ELSE pc[c]]
            /\ bg' = None
       ELSE /\ cache' = RevalidateSettled(cache, f, o, now, cfg)
            /\ hist' = IF o.ok THEN Wrote(hist, f.key, "reval", now) ELSE hist
            /\ bg' = IF o.ok THEN None ELSE Some([key |-> f.key, read |-> f.read])
            /\ UNCHANGED <<pending, pc, call>>
    /\ UNCHANGED <<now, cfg, initialized, initCall, bootstrapped, fallbackMappings,
                   ttlVars, dedupVars, poolVars, invVars, lifeVars, subVars, workVars, auxVars>>

\* time passes, 1.5 s at a time: an entry of 1 s TTL and 1 s stale window is fresh, then
\* stale, then gone; the clock of the specification starts when initialize() has completed
ResTick ==
    /\ initialized /\ Quiet
    /\ Advance(1500, MaxResTicks)
    /\ bg' = None
    /\ UNCHANGED <<cfg, cache, ttlVars, dedupVars, initialized, initCall, bootstrapped,
                   fallbackMappings, pending, flights, pc, call, hist, poolVars, invVars,
                   lifeVars, subVars, workVars, auxVars>>

\* the callers take the outcomes the latest step returned
Return ==
    /\ ~Quiet
    /\ call' = [c \in ResCallers |-> IF pc[c] = "await" THEN call[c] ELSE NoCall]
    /\ bg' = None
    /\ UNCHANGED <<now, cfg, cache, ttlVars, dedupVars, initialized, initCall, bootstrapped,
                   fallbackMappings, pending, flights, pc, hist, poolVars, invVars,
                   lifeVars, subVars, workVars, auxVars>>

NextRes ==
    \/ InitializeStart
    \/ \E caps \in BootstrapReplies : BootstrapReply(caps)
    \/ \E c \in ResCallers, capName \in ResCaps, ver \in ResVersions : ClientResolve(c, capName, ver)
    \/ \E c \in ResCallers, capRef \in InvokeCaps, t \in InvokeTenants : Invoke(c, capRef, t)
    \/ \E f \in flights, o \in RegistryOutcomes : RegistryReply(f, o)
    \/ ResTick
    \/ Return

\* a client configured without fallback mappings
InitRes == InitClient({{}})
SpecRes == InitRes /\ [][NextRes]_vars

\* a client configured with a fallback subject for the application capability
InitFallback == InitClient(FallbackChoices \ {{}})
SpecFallback == InitFallback /\ [][NextRes]_vars

-----------------------------------------------------------------------------
(* SpecRace: SpecRes with registry change events delivered to the client's handler
   (part_009 lines 184-189) *)

\* the (app, capability) pairs of the change events: the application capability and the
\* registry capability
ChangedCapabilities == {<<<<"a">>, <<"c">>>>, <<<<"s">>, <<"r">>>>}

\* cap names the capability (app, name): by one of its reference forms or by its dotted name
RefersTo(cap, app, name) == cap \in RefForms(app, name) \cup {app \o <<".">> \o name}

\* the invalidation handler runs for a change event of (app, name); the registry requests
\* in flight for that capability were sent before the change (old)
RegistryChanged(app, name) ==
    /\ initialized /\ Quiet
    /\ cache' = RCInvalidateCapability(cache, app, name)
    /\ hist' = Kept(hist, cache')
    /\ flights' = {[f EXCEPT !.old = @ \/ RefersTo(f.input.cap, app, name)] : f \in flights}
    /\ bg' = None
    /\ UNCHANGED <<now, cfg, initialized, initCall, bootstrapped, fallbackMappings, pending,
                   pc, call, ttlVars, dedupVars, poolVars, invVars, lifeVars, subVars,
                   workVars, auxVars>>

\* CapabilityClient.clearCaches: both sub-clients clear their caches
ClearCaches ==
    /\ initialized /\ Quiet
    /\ cache' = <<>>
    /\ discovery' = {}
    /\ hist' = {}
    /\ bg' = None
    /\ UNCHANGED <<now, cfg, initialized, initCall, bootstrapped, fallbackMappings, pending,
                   flights, pc, call, ttlVars, dedupVars, poolVars, invVars, lifeVars,
                   subscribers, delivered, workVars, auxVars>>

NextRace ==
    \/ NextRes
    \/ \E ev \in ChangedCapabilities : RegistryChanged(ev[1], ev[2])
    \/ ClearCaches

SpecRace == InitRes /\ [][NextRace]_vars

-----------------------------------------------------------------------------
(* Properties of resolution *)

\* what the history says of the entry a resolve found: its TTL, and whether it was fresh or stale
WrittenTtl(e) ==
    IF e.by = "negative" THEN cfg.negativeTtlMs
    ELSE IF e.by = "bootstrap" \/ e.value.ttlSeconds = 0 THEN Infinity
    ELSE e.value.ttlSeconds * 1000
FoundFresh(k) == k.pre # None /\ now <= Plus(k.pre[1].at, WrittenTtl(k.pre[1]))
FoundStale(k) ==
    /\ k.pre # None
    /\ now > Plus(k.pre[1].at, WrittenTtl(k.pre[1]))
    /\ now <= Plus(Plus(k.pre[1].at, WrittenTtl(k.pre[1])), cfg.staleWindowMs)

\* C1: once initialize has seeded the cache from the bootstrap response, every resolve of a
\* bootstrap-seeded capability, through CapabilityClient.resolve(cap) and through the resolve
\* middleware of invoke alike, is answered from the cache with the seeded value and sends
\* nothing to the registry.
C1_BootstrapServedFromCache ==
    \A c \in ResCallers :
        (call[c].via # "none" /\ call[c].cap \in bootstrapped /\ call[c].ver = None
         /\ RegistryCap \in bootstrapped)
        => /\ pc[c] = "idle"
           /\ call[c].res.src = "hit"
           /\ call[c].res.value = BootstrapValue(call[c].cap)
           /\ call[c].flight = 0 /\ ~call[c].issued

\* C3: resolves of one (cap, ver, ctx) that all miss before any of them completes share one
\* registry 'resolve' request: there is one request per key in flight, every waiting caller
\* waits for the request of its key, exactly one of them issued it, and when it is answered
\* they all get that answer.
C3_OneRegistryCall ==
    /\ \A f1, f2 \in flights :
          (f1.kind = "fetch" /\ f2.kind = "fetch" /\ f1.key = f2.key) => f1 = f2
    /\ \A c \in ResCallers :
          pc[c] = "await" =>
              \E f \in flights : f.id = call[c].flight /\ f.kind = "fetch" /\ f.key = call[c].key
    /\ \A f \in flights :
          f.kind = "fetch" =>
              Cardinality({c \in ResCallers :
                              pc[c] = "await" /\ call[c].flight = f.id /\ call[c].issued}) = 1
    /\ \A c1, c2 \in ResCallers :
          (pc[c1] = "idle" /\ pc[c2] = "idle" /\ call[c1].flight # 0
           /\ call[c1].flight = call[c2].flight)
          => /\ call[c1].res = call[c2].res
             /\ call[c1].res.src \in {"registry", "registry-error"}

\* two callers that waited for the same registry request got its result
C3_Witness ==
    \E c1, c2 \in ResCallers :
        /\ c1 # c2 /\ pc[c1] = "idle" /\ pc[c2] = "idle"
        /\ call[c1].flight # 0 /\ call[c1].flight = call[c2].flight
        /\ call[c1].issued /\ ~call[c2].issued
        /\ call[c1].res.src = "registry" /\ call[c2].res = call[c1].res

\* C4: however many resolves read one stale entry before its refresh lands, one background
\* revalidation is fired for it: no two revalidation requests fired for the same entry are
\* in flight.
C4_OneRevalidation ==
    \A f1, f2 \in flights :
        (f1.kind = "reval" /\ f2.kind = "reval" /\ f1.key = f2.key /\ f1.read = f2.read)
        => f1 = f2

\* C5: a resolve that finds a stale entry returns the stale value while the entry is still
\* the stale one and its revalidation request is in flight; a resolve that finds an entry the
\* revalidation stored, within that entry's TTL, returns the refreshed value from the cache
\* and sends nothing.
C5_StaleThenRefreshed ==
    \A c \in ResCallers :
        /\ (call[c].via # "none" /\ FoundStale(call[c]) /\ call[c].pre[1].by # "negative")
           => /\ pc[c] = "idle"
              /\ call[c].res.src = "stale"
              /\ call[c].res.value = call[c].pre[1].value
              /\ HasKey(cache, call[c].key)
              /\ EntryOf(cache, call[c].key).value = call[c].pre[1].value
              /\ now > EntryOf(cache, call[c].key).expiresAt
              /\ \E f \in flights :
                    f.id = call[c].reval /\ f.kind = "reval" /\ f.key = call[c].key
        /\ (call[c].via # "none" /\ FoundFresh(call[c]) /\ call[c].pre[1].by = "reval")
           => /\ pc[c] = "idle"
              /\ call[c].res.src = "hit"
              /\ call[c].res.value = call[c].pre[1].value
              /\ call[c].flight = 0 /\ call[c].reval = 0

\* a resolve was answered, as fresh, with the value a revalidation had stored
C5_Witness ==
    \E c \in ResCallers :
        /\ call[c].pre # None /\ call[c].pre[1].by = "reval"
        /\ call[c].res.src = "hit"
        /\ call[c].res.value = call[c].pre[1].value

\* C33: the step in which a background revalidation's registry request fails changes
\* neither the cache nor any caller's call, and a later resolve that finds the entry the
\* revalidation was fired for, still within its stale window, returns the stale value.
C33_RevalidationFailureDiscarded ==
    /\ [][(/\ \E f \in flights : f.kind = "reval" /\ f \notin flights'
           /\ bg' # None)
          => (cache' = cache /\ call' = call /\ pc' = pc)]_vars
    /\ [](\A c \in ResCallers :
             (/\ bg # None
              /\ call[c].via # "none" /\ call[c].key = bg[1].key
              /\ call[c].pre # None /\ call[c].pre[1].at = bg[1].read
              /\ call[c].pre[1].by # "negative" /\ FoundStale(call[c]))
             => /\ call[c].res.src = "stale"
                /\ call[c].res.value = call[c].pre[1].value)

\* after a revalidation of an entry failed, a resolve got the same stale entry again
C33_Witness ==
    \E c \in ResCallers :
        /\ bg # None
        /\ call[c].via # "none" /\ call[c].key = bg[1].key
        /\ call[c].pre # None /\ call[c].pre[1].at = bg[1].read
        /\ call[c].res.src = "stale"

\* C35: the reply to a registry request that was sent before a change event of its
\* capability was processed stores no result under the request's key.
C35_NoWriteAfterInvalidation ==
    [][\A f \in flights :
          (f.old /\ f \notin flights')
          => ~(/\ HasKey(cache', f.key) /\ ~EntryOf(cache', f.key).isNegative
               /\ (HasKey(cache, f.key) => EntryOf(cache', f.key) # EntryOf(cache, f.key)))]_vars

\* the cache key of getRegistrySubject's lookup
RegistryKey == BuildKey(CacheParams(RegistryCap, None, None), cfg)

\* C39: while the client is initialized, no step removes or replaces the entry the
\* bootstrap stored for registryCap.
C39_RegistryEntryStays ==
    [][(/\ initialized /\ initialized'
        /\ HasKey(cache, RegistryKey)
        /\ EntryOf(cache, RegistryKey).value = BootstrapValue(RegistryCap))
       => (/\ HasKey(cache', RegistryKey)
           /\ EntryOf(cache', RegistryKey).value = BootstrapValue(RegistryCap))]_vars

C7_FallbackOutput ==
    \A c \in ResCallers :
        call[c].res.src = "fallback" =>
            LET sub      == FallbackSubject(fallbackMappings, call[c].cap)[1]
                segs     == Split(sub, ".")
                seg      == segs[Len(segs)]
                numeral  == IF seg # <<>> /\ Head(seg) = "v" THEN Tail(seg) ELSE seg
                major    == DigitsToNat(numeral, 0)
                version  == NumToString(major) \o <<".", "0", ".", "0">>
                v        == call[c].res.value
            IN /\ v.subject = sub
               /\ v.major = major
               /\ v.resolvedVersion = version
               /\ v.canonicalIdentity =
                      <<"c", "a", "p", ":", "@", "m", "a", "i", "n", "/">> \o call[c].cap
                      \o <<"@">> \o version
               /\ v.natsUrl = DefaultNatsUrl
               /\ v.etag = "fallback"
               /\ ~(HasKey(cache, call[c].key) /\ EntryOf(cache, call[c].key).isNegative)

-----------------------------------------------------------------------------
(* NatsConnectionPool (src/common/node/src/middleware.ts, lines 237-522) *)

UpperCase == <<"A", "B", "C", "D", "E", "F", "G", "H", "I", "J", "K", "L", "M",
               "N", "O", "P", "Q", "R", "S", "T", "U", "V", "W", "X", "Y", "Z">>
LowerCase == <<"a", "b", "c", "d", "e", "f", "g", "h", "i", "j", "k", "l", "m",
               "n", "o", "p", "q", "r", "s", "t", "u", "v", "w", "x", "y", "z">>

\* String.prototype.toLowerCase, one character
ToLower(ch) ==
    IF \E i \in 1..26 : UpperCase[i] = ch
    THEN LowerCase[CHOOSE i \in 1..26 : UpperCase[i] = ch]
    ELSE ch

RECURSIVE StripTrailingSlashes(_)
\* url.replace(/\/+$/, "")
StripTrailingSlashes(u) ==
    IF u # <<>> /\ u[Len(u)] = "/" THEN StripTrailingSlashes(SubSeq(u, 1, Len(u) - 1)) ELSE u

NormalizeUrl_CaseSensitive(u) == StripTrailingSlashes(u)

\* NatsConnectionPool.normalizeUrl
NormalizeUrl(u) ==
    LET t == StripTrailingSlashes(u) IN [i \in 1..Len(t) |-> ToLower(t[i])]

\* the default connection is not one of the pool's
DefaultConnection == 0

\* isCredentialExpired: credentials count as expired 30 s before expiresAt
IsCredentialExpired(creds, t) ==
    creds.expiresAt # None /\ t >= creds.expiresAt[1] - 30000

\* NatsConnection.drain() of the nats library: it rejects at once on a connection that is
\* draining or closed; on an open one it starts the drain and settles when the drain is done.
\* closeEntry(natsUrl) up to that await: wait = the connection whose drain it awaits,
\* or 0 when closeEntry completed within the turn
CloseEntryStart(st, url) ==
    IF ~HasKey(st.pool, url) THEN [pool |-> st.pool, conn |-> st.conn, wait |-> 0]
    ELSE LET k == EntryOf(st.pool, url).connection IN
         IF st.conn[k] = "open"
         THEN [pool |-> st.pool, conn |-> [st.conn EXCEPT ![k] = "draining"], wait |-> k]
         ELSE [pool |-> MapDelete(st.pool, url), conn |-> st.conn, wait |-> 0]

OldestUrl_FirstInserted(p) == p[1].key

\* evictIfNeeded: the least recently used entry, the first of them in iteration order
OldestUrl(p) ==
    LET i == CHOOSE x \in 1..Len(p) :
                 /\ \A j \in 1..Len(p) : p[x].lastUsedAt <= p[j].lastUsedAt
                 /\ \A j \in 1..(x - 1) : p[j].lastUsedAt > p[x].lastUsedAt
    IN p[i].key

\* evictIfNeeded up to the await of closeEntry: url = the entry it closes (<<>> for none)
EvictStart(st, config) ==
    IF Len(st.pool) < config.maxConnections - 1 \/ st.pool = <<>>
    THEN [pool |-> st.pool, conn |-> st.conn, wait |-> 0, url |-> <<>>]
    ELSE LET r == CloseEntryStart(st, OldestUrl(st.pool)) IN
         [pool |-> r.pool, conn |-> r.conn, wait |-> r.wait, url |-> OldestUrl(st.pool)]

RECURSIVE ReapLoop(_, _)
\* the loop of reapIdleConnections over toEvict, up to the next drain it has to await
ReapLoop(st, urls) ==
    IF urls = <<>>
    THEN [pool |-> st.pool, conn |-> st.conn, wait |-> 0, url |-> <<>>, rest |-> <<>>]
    ELSE LET r == CloseEntryStart(st, Head(urls)) IN
         IF r.wait # 0
         THEN [pool |-> r.pool, conn |-> r.conn, wait |-> r.wait, url |-> Head(urls),
               rest |-> Tail(urls)]
         ELSE ReapLoop(r, Tail(urls))

\* reapIdleConnections: the urls of the entries idle for more than idleTimeoutMs
IdleUrls(p, t, config) ==
    LET idle == SelectSeq(p, LAMBDA e : t - e.lastUsedAt > config.idleTimeoutMs)
    IN [i \in 1..Len(idle) |-> idle[i].key]

NoPoolResult ==
    [ok |-> FALSE, conn |-> 0, code |-> "", retryable |-> FALSE, src |-> "none",
     expiresAt |-> None]

\* the CapabilityError getOrConnect throws without an auth provider (lines 350-354)
NoProviderError ==
    [NoPoolResult EXCEPT !.code = "AUTH_FAILED", !.retryable = FALSE, !.src = "error"]
\* ... when the auth provider fails (lines 372-377)
AuthProviderError ==
    [NoPoolResult EXCEPT !.code = "AUTH_FAILED", !.retryable = TRUE, !.src = "error"]
ConnectError_NotRetryable ==
    [NoPoolResult EXCEPT !.code = "INTERNAL_ERROR", !.retryable = FALSE, !.src = "error"]
\* ... when connect() fails (lines 389-394)
ConnectError ==
    [NoPoolResult EXCEPT !.code = "INTERNAL_ERROR", !.retryable = TRUE, !.src = "error"]

\* a caller's locals; victim = the url evictIfNeeded closed for this call, during = a
\* closeAll ran while the call was in flight (both history)
NoPoolCall ==
    [url |-> <<>>, wait |-> 0, closeUrl |-> <<>>, creds |-> None, res |-> NoPoolResult,
     victim |-> <<>>, during |-> FALSE]

\* getOrConnect from the check for an auth provider (line 349) to its next await;
\* st = [pool, conn], k = the caller's locals; the result: pool, conn, pc, call
Proceed(st, k, config) ==
    IF ~config.authProvider
    THEN [pool |-> st.pool, conn |-> st.conn, pc |-> "idle",
          call |-> [k EXCEPT !.wait = 0, !.closeUrl = <<>>,
                             !.res = NoProviderError]]
    ELSE LET e == EvictStart(st, config) IN
         [pool |-> e.pool, conn |-> e.conn,
          pc |-> IF e.wait # 0 THEN "evicting" ELSE "auth",
          call |-> [k EXCEPT !.wait = e.wait, !.closeUrl = e.url, !.victim = e.url]]

-----------------------------------------------------------------------------
(* SpecPool: one NatsConnectionPool, its callers, the idle reaper and closeAll *)

PoolCallers     == {"p", "q"}
PoolCallerOrder == <<"p", "q">>

\* the natsUrl arguments of getOrConnect
PoolUrls == {<<"d">>, <<"a">>, <<"A", "/">>, <<"b">>}

\* the constructor's parameters: defaultUrl and config
PoolConfigs ==
    {[defaultUrl |-> <<"D", "/">>, maxConnections |-> 2, idleTimeoutMs |-> 30000,
      authProvider |-> a] : a \in BOOLEAN}

\* what the auth provider answers: an error, or credentials without expiry, or with
\* expiresAt 60 s or 90 s after the pool was built (whenever it is asked)
AuthOutcomes ==
    {[ok |-> FALSE, expiresAt |-> None],
     [ok |-> TRUE, expiresAt |-> None],
     [ok |-> TRUE, expiresAt |-> Some(60000)],
     [ok |-> TRUE, expiresAt |-> Some(90000)]}

\* history: evictIfNeeded has removed the entry of url (kept only where it is asked for)
NoteEvicted(ev, url) ==
    IF ev = None \/ url = <<>> THEN ev ELSE Some(ev[1] \cup {url})

\* no outcome of a getOrConnect is on display
PoolQuiet == \A c \in PoolCallers : ppc[c] # "idle" \/ pcall[c] = NoPoolCall

\* callers are interchangeable: a new call is the first idle caller's
PoolFirstIdle(c) ==
    /\ ppc[c] = "idle"
    /\ \A i, j \in 1..Len(PoolCallerOrder) :
          (PoolCallerOrder[j] = c /\ i < j) => ppc[PoolCallerOrder[i]] # "idle"

InitPool ==
    /\ now = 0 /\ cfg = None /\ cache = <<>>
    /\ IdleTtl /\ IdleDedup /\ IdleRes /\ IdleInv
    /\ IdleLife /\ IdleSub /\ IdleWork /\ IdleAux
    /\ pool = <<>> /\ defaultConn = "open"
    /\ conn = [k \in 1..MaxPoolConns |-> "none"]
    /\ poolCfg \in PoolConfigs
    /\ idleTimer = TRUE
    /\ ppc = [c \in PoolCallers |-> "idle"]
    /\ pcall = [c \in PoolCallers |-> NoPoolCall]
    /\ reaper = [lastAt |-> 0, wait |-> 0, url |-> <<>>, rest |-> <<>>]
    /\ closer = None /\ evicted = None

\* getOrConnect(natsUrl) up to its first await
GetOrConnect(c, natsUrl) ==
    LET url == NormalizeUrl(natsUrl)
        k0  == [NoPoolCall EXCEPT !.url = url, !.during = (closer # None)]
    IN
    /\ PoolFirstIdle(c) /\ PoolQuiet
    /\ IF url = NormalizeUrl(poolCfg.defaultUrl)
       THEN /\ pcall' = [pcall EXCEPT ![c] = [k0 EXCEPT !.res =
                           [ok |-> TRUE, conn |-> DefaultConnection, code |-> "",
                            retryable |-> FALSE, src |-> "default", expiresAt |-> None]]]
            /\ UNCHANGED <<pool, conn, ppc, evicted>>
       ELSE IF HasKey(pool, url) /\ ~IsCredentialExpired(EntryOf(pool, url).credentials, now)
       THEN /\ pool' = [pool EXCEPT ![IndexOf(pool, url)].lastUsedAt = now]
            /\ pcall' = [pcall EXCEPT ![c] = [k0 EXCEPT !.res =
                           [ok |-> TRUE, conn |-> EntryOf(pool, url).connection, code |-> "",
                            retryable |-> FALSE, src |-> "pooled",
                            expiresAt |-> EntryOf(pool, url).credentials.expiresAt]]]
            /\ UNCHANGED <<conn, ppc, evicted>>
       ELSE LET st0 == CloseEntryStart([pool |-> pool, conn |-> conn], url) IN
            IF st0.wait # 0
            THEN /\ pool' = st0.pool /\ conn' = st0.conn
                 /\ ppc' = [ppc EXCEPT ![c] = "closing"]
                 /\ pcall' = [pcall EXCEPT ![c] = [k0 EXCEPT !.wait = st0.wait,
                                                            !.closeUrl = url]]
                 /\ UNCHANGED evicted
            ELSE LET r == Proceed(st0, k0, poolCfg) IN
                 /\ pool' = r.pool /\ conn' = r.conn
                 /\ ppc' = [ppc EXCEPT ![c] = r.pc]
                 /\ pcall' = [pcall EXCEPT ![c] = r.call]
                 /\ evicted' = NoteEvicted(evicted, IF r.pc = "auth" THEN r.call.closeUrl
                                                     ELSE <<>>)
    /\ UNCHANGED <<now, cfg, cache, ttlVars, dedupVars, resVars, invVars, poolCfg, defaultConn, idleTimer,
                   reaper, closer, lifeVars, subVars, workVars, auxVars>>

\* the drain of connection k is done: the closeEntry that awaits it deletes the entry of its
\* url, and its caller runs on to the next await
DrainDone(k) ==
    /\ k \in 1..Len(conn) /\ conn[k] = "draining" /\ PoolQuiet
    /\ LET conn1 == [conn EXCEPT ![k] = "none"] IN
       IF \E c \in PoolCallers : ppc[c] \in {"closing", "evicting"} /\ pcall[c].wait = k
       THEN LET c  == CHOOSE x \in PoolCallers :
                          ppc[x] \in {"closing", "evicting"} /\ pcall[x].wait = k
                k1 == [pcall[c] EXCEPT !.wait = 0, !.closeUrl = <<>>]
                p1 == MapDelete(pool, pcall[c].closeUrl)
                r  == IF ppc[c] = "closing"
                      THEN Proceed([pool |-> p1, conn |-> conn1], k1, poolCfg)
                      ELSE [pool |-> p1, conn |-> conn1, pc |-> "auth", call |-> k1]
            IN /\ pool' = r.pool /\ conn' = r.conn
               /\ ppc' = [ppc EXCEPT ![c] = r.pc]
               /\ pcall' = [pcall EXCEPT ![c] = r.call]
               /\ evicted' = NoteEvicted(evicted,
                                 IF ppc[c] = "evicting" THEN pcall[c].closeUrl
                                 ELSE IF r.pc = "auth" THEN r.call.closeUrl ELSE <<>>)
               /\ UNCHANGED <<reaper, closer>>
       ELSE IF reaper.wait = k
       THEN LET r == ReapLoop([pool |-> MapDelete(pool, reaper.url), conn |-> conn1],
                              reaper.rest)
            IN /\ pool' = r.pool /\ conn' = r.conn
               /\ reaper' = [reaper EXCEPT !.wait = r.wait, !.url = r.url, !.rest = r.rest]
               /\ UNCHANGED <<ppc, pcall, closer, evicted>>
       ELSE LET left == {w \in closer[1] : w.conn # k}
                url  == (CHOOSE w \in closer[1] : w.conn = k).url
            IN /\ pool' = IF left = {} THEN <<>> ELSE MapDelete(pool, url)
               /\ conn' = conn1
               /\ closer' = IF left = {} THEN None ELSE Some(left)
               /\ UNCHANGED <<ppc, pcall, reaper, evicted>>
    /\ UNCHANGED <<now, cfg, cache, ttlVars, dedupVars, resVars, invVars, poolCfg, defaultConn, idleTimer,
                   lifeVars, subVars, workVars, auxVars>>

\* the auth provider answers
AuthReply(c, o) ==
    /\ ppc[c] = "auth" /\ PoolQuiet
    /\ IF o.ok
       THEN /\ ppc' = [ppc EXCEPT ![c] = "connecting"]
            /\ pcall' = [pcall EXCEPT ![c].creds = Some([expiresAt |-> o.expiresAt])]
       ELSE /\ ppc' = [ppc EXCEPT ![c] = "idle"]
            /\ pcall' = [pcall EXCEPT ![c].res = AuthProviderError]
    /\ UNCHANGED <<now, cfg, cache, ttlVars, dedupVars, resVars, invVars, pool, conn, poolCfg, defaultConn, evicted,
                   idleTimer, reaper, closer, lifeVars, subVars, workVars, auxVars>>

\* the name of the next connection: the first one that no live connection bears (a
\* connection whose drain is done is closed for good, and nothing refers to it any more);
\* 0 when MaxPoolConns connections are alive
FreeConn ==
    IF \E k \in 1..Len(conn) : conn[k] = "none"
    THEN CHOOSE k \in 1..Len(conn) : conn[k] = "none" /\ \A j \in 1..(k - 1) : conn[j] # "none"
    ELSE 0

\* connect() settles: on success the entry is stored and the connection returned
\* (connectedAt, which nothing reads, is left out of the entry)
ConnectReply(c, ok) ==
    /\ ppc[c] = "connecting" /\ PoolQuiet
    /\ ppc' = [ppc EXCEPT ![c] = "idle"]
    /\ IF ok
       THEN /\ FreeConn # 0
            /\ conn' = [conn EXCEPT ![FreeConn] = "open"]
            /\ pool' = MapSet(pool, [key |-> pcall[c].url, natsUrl |-> pcall[c].url,
                                     connection |-> FreeConn,
                                     credentials |-> pcall[c].creds[1],
                                     lastUsedAt |-> now])
            /\ pcall' = [pcall EXCEPT ![c].res =
                            [ok |-> TRUE, conn |-> FreeConn, code |-> "",
                             retryable |-> FALSE, src |-> "created",
                             expiresAt |-> pcall[c].creds[1].expiresAt]]
       ELSE /\ pcall' = [pcall EXCEPT ![c].res = ConnectError]
            /\ UNCHANGED <<pool, conn>>
    /\ UNCHANGED <<now, cfg, cache, ttlVars, dedupVars, resVars, invVars, poolCfg, defaultConn, evicted, idleTimer,
                   reaper, closer, lifeVars, subVars, workVars, auxVars>>

\* the interval timer fires reapIdleConnections (one run at a time)
ReaperFire ==
    /\ idleTimer /\ PoolQuiet
    /\ reaper.wait = 0 /\ now >= reaper.lastAt + 60000
    /\ LET r == ReapLoop([pool |-> pool, conn |-> conn], IdleUrls(pool, now, poolCfg)) IN
       /\ pool' = r.pool /\ conn' = r.conn
       /\ reaper' = [lastAt |-> now, wait |-> r.wait, url |-> r.url, rest |-> r.rest]
    /\ UNCHANGED <<now, cfg, cache, ttlVars, dedupVars, resVars, invVars, poolCfg, defaultConn, evicted, idleTimer,
                   ppc, pcall, closer, lifeVars, subVars, workVars, auxVars>>

CloseAll_KeepsTimer ==
    /\ closer = None /\ PoolQuiet
    /\ LET waits == {[conn |-> pool[i].connection, url |-> pool[i].key] :
                        i \in {x \in 1..Len(pool) : conn[pool[x].connection] = "open"}}
       IN /\ conn' = [k \in 1..Len(conn) |->
                         IF \E w \in waits : w.conn = k THEN "draining" ELSE conn[k]]
          /\ pool' = IF waits = {} THEN <<>>
                     ELSE SelectSeq(pool, LAMBDA e : conn[e.connection] = "open")
          /\ closer' = IF waits = {} THEN None ELSE Some(waits)
    /\ pcall' = [c \in PoolCallers |->
                    IF ppc[c] # "idle" THEN [pcall[c] EXCEPT !.during = TRUE] ELSE pcall[c]]
    /\ UNCHANGED <<now, cfg, cache, ttlVars, dedupVars, resVars, invVars, poolCfg, defaultConn, evicted,
                   idleTimer, ppc, reaper, lifeVars, subVars, workVars, auxVars>>

\* closeAll() up to the await of its closeEntry calls (one closeAll at a time)
CloseAll ==
    /\ closer = None /\ PoolQuiet
    /\ idleTimer' = FALSE
    /\ LET waits == {[conn |-> pool[i].connection, url |-> pool[i].key] :
                        i \in {x \in 1..Len(pool) : conn[pool[x].connection] = "open"}}
       IN /\ conn' = [k \in 1..Len(conn) |->
                         IF \E w \in waits : w.conn = k THEN "draining" ELSE conn[k]]
          /\ pool' = IF waits = {} THEN <<>>
                     ELSE SelectSeq(pool, LAMBDA e : conn[e.connection] = "open")
          /\ closer' = IF waits = {} THEN None ELSE Some(waits)
    /\ pcall' = [c \in PoolCallers |->
                    IF ppc[c] # "idle" THEN [pcall[c] EXCEPT !.during = TRUE] ELSE pcall[c]]
    /\ UNCHANGED <<now, cfg, cache, ttlVars, dedupVars, resVars, invVars, poolCfg, defaultConn, evicted, ppc, reaper,
                   lifeVars, subVars, workVars, auxVars>>

\* time passes, 30 s at a time
PoolTick ==
    /\ PoolQuiet
    /\ Advance(30000, MaxPoolTicks)
    /\ UNCHANGED <<cfg, cache, ttlVars, dedupVars, resVars, poolVars, invVars,
                   lifeVars, subVars, workVars, auxVars>>

\* the callers take the outcomes the latest step returned
PoolReturn ==
    /\ ~PoolQuiet
    /\ pcall' = [c \in PoolCallers |-> IF ppc[c] = "idle" THEN NoPoolCall ELSE pcall[c]]
    /\ UNCHANGED <<now, cfg, cache, ttlVars, dedupVars, resVars, invVars, pool, conn, poolCfg, defaultConn, evicted,
                   idleTimer, ppc, reaper, closer, lifeVars, subVars, workVars, auxVars>>

NextPool ==
    \/ \E c \in PoolCallers, u \in PoolUrls : GetOrConnect(c, u)
    \/ \E k \in 1..MaxPoolConns : DrainDone(k)
    \/ \E c \in PoolCallers, o \in AuthOutcomes : AuthReply(c, o)
    \/ \E c \in PoolCallers, ok \in BOOLEAN : ConnectReply(c, ok)
    \/ ReaperFire
    \/ CloseAll
    \/ PoolTick
    \/ PoolReturn

SpecPool == InitPool /\ [][NextPool]_vars

\* the pool with two remote slots and three remote urls, its calls one or two at a time
\* with an auth provider and a bus that answer
LruUrls == {<<"a">>, <<"b">>, <<"c">>}
LruConfig ==
    [defaultUrl |-> <<"D", "/">>, maxConnections |-> 3, idleTimeoutMs |-> 30000,
     authProvider |-> TRUE]
LruAuthOutcome == [ok |-> TRUE, expiresAt |-> None]

InitLru ==
    /\ now = 0 /\ cfg = None /\ cache = <<>>
    /\ IdleTtl /\ IdleDedup /\ IdleRes /\ IdleInv
    /\ IdleLife /\ IdleSub /\ IdleWork /\ IdleAux
    /\ pool = <<>> /\ defaultConn = "open"
    /\ conn = [k \in 1..(MaxPoolConns + 1) |-> "none"]
    /\ poolCfg = LruConfig
    /\ idleTimer = TRUE
    /\ ppc = [c \in PoolCallers |-> "idle"]
    /\ pcall = [c \in PoolCallers |-> NoPoolCall]
    /\ reaper = [lastAt |-> 0, wait |-> 0, url |-> <<>>, rest |-> <<>>]
    /\ closer = None /\ evicted = Some({})

NextLru ==
    \/ \E c \in PoolCallers, u \in LruUrls : GetOrConnect(c, u)
    \/ \E k \in 1..(MaxPoolConns + 1) : DrainDone(k)
    \/ \E c \in PoolCallers : AuthReply(c, LruAuthOutcome)
    \/ \E c \in PoolCallers : ConnectReply(c, TRUE)
    \/ PoolTick
    \/ PoolReturn

SpecLru == InitLru /\ [][NextLru]_vars

\* C9: getOrConnect never returns a connection the pool has closed or has started to drain,
\* whatever it interleaves with: LRU eviction, idle reaping, the replacement of expired
\* credentials, closeAll.
C9_ReturnsOpenConnection ==
    \A c \in PoolCallers :
        (pcall[c].res.ok /\ pcall[c].res.conn # DefaultConnection)
        => conn[pcall[c].res.conn] = "open"

\* C10: getOrConnect never returns a non-default connection whose credentials are expired
\* at the moment of the return (expired from 30 s before expiresAt on), be the entry found
\* in the pool or just created.
C10_ReturnsValidCredentials ==
    \A c \in PoolCallers :
        (pcall[c].res.ok /\ pcall[c].res.conn # DefaultConnection)
        => (pcall[c].res.expiresAt = None \/ now < pcall[c].res.expiresAt[1] - 30000)

\* C11: at every moment the pool holds at most maxConnections connections counting the
\* default one, that is at most maxConnections - 1 non-default entries, whatever the
\* interleaving of getOrConnect calls.
C11_PoolWithinCapacity ==
    Len(pool) <= poolCfg.maxConnections - 1

\* normalizeUrl as the documentation of getOrConnect has it: trailing slashes stripped,
\* lowercased
IsDefaultUrl(u) ==
    LET t == StripTrailingSlashes(u)
        d == StripTrailingSlashes(poolCfg.defaultUrl)
    IN /\ Len(t) = Len(d)
       /\ \A i \in 1..Len(t) : ToLower(t[i]) = ToLower(d[i])

\* C12: for every url that normalizes to the default url, getOrConnect returns the default
\* connection at once, without a call of the auth provider (and with or without one
\* configured); the default connection is never an entry of the pool, and nothing the pool
\* does drains or closes it.
C12_DefaultConnectionBorrowed ==
    /\ defaultConn = "open"
    /\ \A i \in 1..Len(pool) : ~IsDefaultUrl(pool[i].key) /\ pool[i].connection # DefaultConnection
    /\ \A c \in PoolCallers :
          (pcall[c] # NoPoolCall /\ IsDefaultUrl(pcall[c].url))
          => /\ ppc[c] = "idle"
             /\ pcall[c].res.ok /\ pcall[c].res.conn = DefaultConnection
             /\ pcall[c].res.src = "default"

\* a call for the default url has returned while the pool holds a remote connection, or
\* after closeAll
C12_Witness ==
    /\ \E c \in PoolCallers : pcall[c].res.src = "default"
    /\ pool # <<>> \/ ~idleTimer

\* the entry of url is among the least recently used ones of the entries es
LeastRecentlyUsed(es, url) ==
    /\ HasKey(es, url)
    /\ \A i \in 1..Len(es) : EntryOf(es, url).lastUsedAt <= es[i].lastUsedAt

\* C13: the entry that evictIfNeeded picks when getOrConnect for a new url finds the pool
\* at capacity has the smallest lastUsedAt of the pool; lastUsedAt is the time of the
\* connect, or of the latest getOrConnect that found the entry; and a getOrConnect for a
\* url whose entry was evicted goes to the auth provider again.
C13_EvictsLeastRecentlyUsed ==
    [][\A c \in PoolCallers :
          /\ (ppc[c] # "evicting" /\ ppc'[c] = "evicting")
             => LeastRecentlyUsed(pool', pcall'[c].closeUrl)
          /\ (ppc[c] = "idle" /\ ppc'[c] = "auth" /\ pcall'[c].closeUrl # <<>>)
             => LeastRecentlyUsed(pool, pcall'[c].closeUrl)
          /\ (pcall[c].res.src = "none" /\ pcall'[c].res.src \in {"pooled", "created"})
             => /\ HasKey(pool', pcall'[c].url)
                /\ EntryOf(pool', pcall'[c].url).lastUsedAt = now
          /\ (pcall[c] = NoPoolCall /\ pcall'[c] # NoPoolCall
                /\ pcall'[c].url \in evicted[1] /\ ~HasKey(pool, pcall'[c].url))
             => (ppc'[c] \in {"auth", "evicting"} /\ pcall'[c].res.src = "none")
      ]_vars

\* a url whose entry was evicted has been connected again
C13_Witness ==
    \E c \in PoolCallers :
        /\ pcall[c].res.src = "created"
        /\ evicted # None /\ pcall[c].url \in evicted[1]

\* C14: closeAll cancels the idle reaper (it never fires again), calls drain on the
\* connection of every entry the pool holds, and when the drains are done the pool is
\* empty; a drain that fails (the connection was draining already) fails nothing; the
\* default connection stays open.  After that getOrConnect of the default url returns the
\* default connection and getOrConnect of a remote url goes to the auth provider.
C14_CloseAll ==
    [][/\ (closer = None /\ closer' # None)
          => /\ ~idleTimer'
             /\ \A i \in 1..Len(pool) : conn'[pool[i].connection] = "draining"
             /\ \A w \in closer'[1] : EntryOf(pool', w.url).connection = w.conn
       /\ (idleTimer /\ ~idleTimer' /\ closer' = None) => pool' = <<>>
       /\ (closer # None /\ closer' = None)
          => /\ pool' = <<>>
             /\ \A w \in closer[1] : conn'[w.conn] = "none"
       /\ ~idleTimer => (~idleTimer' /\ reaper'.lastAt = reaper.lastAt)
       /\ defaultConn' = "open"
       /\ \A c \in PoolCallers :
             (~idleTimer /\ closer = None /\ pool = <<>>
                /\ pcall[c] = NoPoolCall /\ pcall'[c] # NoPoolCall)
             => IF IsDefaultUrl(pcall'[c].url)
                THEN pcall'[c].res.ok /\ pcall'[c].res.conn = DefaultConnection
                ELSE poolCfg.authProvider
                     => (ppc'[c] = "auth" /\ pcall'[c].res.src = "none")
      ]_vars

\* closeAll awaits the drain of the pool's connections, the reaper cancelled
C14_Witness ==
    /\ closer # None /\ ~idleTimer
    /\ \A w \in closer[1] : conn[w.conn] = "draining"

\* C15: a getOrConnect for a non-default url fails with AUTH_FAILED (not retryable) when
\* no auth provider is configured, with AUTH_FAILED (retryable) when the auth provider
\* fails, with INTERNAL_ERROR (retryable) when connect fails; the failing call leaves the
\* pool without a new entry for its url.
C15_ConnectFailures ==
    [][\A c \in PoolCallers :
          /\ (pcall[c].res.src = "none" /\ pcall'[c].res.src = "error")
             => /\ ~pcall'[c].res.ok /\ ~IsDefaultUrl(pcall'[c].url)
                /\ ppc[c] \in {"idle", "closing"}
                   => /\ ~poolCfg.authProvider
                      /\ pcall'[c].res.code = "AUTH_FAILED" /\ ~pcall'[c].res.retryable
                /\ ppc[c] = "auth"
                   => pcall'[c].res.code = "AUTH_FAILED" /\ pcall'[c].res.retryable
                /\ ppc[c] = "connecting"
                   => pcall'[c].res.code = "INTERNAL_ERROR" /\ pcall'[c].res.retryable
                /\ ppc[c] \in {"idle", "closing", "auth", "connecting"}
                /\ HasKey(pool', pcall'[c].url)
                   => /\ HasKey(pool, pcall'[c].url)
                      /\ EntryOf(pool', pcall'[c].url) = EntryOf(pool, pcall'[c].url)
          /\ (pcall[c] = NoPoolCall /\ pcall'[c] # NoPoolCall
                /\ ~IsDefaultUrl(pcall'[c].url) /\ ~poolCfg.authProvider)
             => pcall'[c].res.src = "error"
      ]_vars

\* a connect has failed, and the pool has no entry for the url
C15_Witness ==
    \E c \in PoolCallers :
        /\ pcall[c].res.src = "error" /\ pcall[c].res.code = "INTERNAL_ERROR"
        /\ ~HasKey(pool, pcall[c].url)

-----------------------------------------------------------------------------
(* buildPipeline (src/core/src/pipeline.ts), the NATS transport core             *)
(* (src/core/src/policy/index.ts) and CapabilityClient.invoke / invokeSubject    *)

MaxStages   == 3      \* SpecPipeline: middleware arrays up to this length
MaxExtra    == 1      \* SpecInvoke: extraMiddleware up to this length
MaxInvTicks == 3      \* SpecInvoke: the clock stops after this many ticks

\* what a handler has given back: nothing yet, a result, or an exception
NoOutcome ==
    [kind |-> "none", ok |-> FALSE, isCapabilityError |-> FALSE, code |-> "",
     retryable |-> FALSE, details |-> "", meta |-> None]
OkResult(meta) == [NoOutcome EXCEPT !.kind = "result", !.ok = TRUE, !.meta = meta]
ErrResult(code, retryable, details, meta) ==
    [NoOutcome EXCEPT !.kind = "result", !.code = code, !.retryable = retryable,
                      !.details = details, !.meta = meta]
\* new CapabilityError({code, retryable, details}) thrown
CapabilityError(code, retryable, details) ==
    [NoOutcome EXCEPT !.kind = "throw", !.isCapabilityError = TRUE, !.code = code,
                      !.retryable = retryable, !.details = details]
\* any other exception thrown; code is a field of its own (NatsError.code,
\* ResolutionError.code), "" when it has none
OtherError(code) == [NoOutcome EXCEPT !.kind = "throw", !.code = code]

\* InvocationMeta
Meta(startedAt, endedAt) ==
    Some([startedAtUnixMs |-> startedAt, endedAtUnixMs |-> endedAt,
          durationMs |-> endedAt - startedAt])

ToErrorResult_AlwaysInternal(err, startedAt, t) ==
    ErrResult("INTERNAL_ERROR", FALSE, "", Meta(startedAt, t))

\* toErrorResult({err, startedAt, clock})
ToErrorResult(err, startedAt, t) ==
    IF err.isCapabilityError
    THEN ErrResult(err.code, err.retryable, err.details, Meta(startedAt, t))
    ELSE ErrResult("INTERNAL_ERROR", FALSE, "", Meta(startedAt, t))

\* composeAbort({signal, ctx}): a new controller that follows the signal passed in, if
\* any; ctx is not read
ComposeAbort(signal, ctx) ==
    [aborted |-> signal # None /\ signal[1].aborted]

\* mw(next): the handler that runs mw around next; a handler is the sequence of its stages
\* from the outermost to the core
Wrap(mw, next) == <<mw>> \o next

RECURSIVE ReduceRight(_, _, _)
\* Array.prototype.reduceRight((next, mw) => mw(next), acc), the elements from i down
ReduceRight(arr, i, acc) ==
    IF i = 0 THEN acc
    ELSE ReduceRight(arr, i - 1, Wrap([id |-> i, kind |-> arr[i]], acc))

RECURSIVE ReduceLeft(_, _, _)
ReduceLeft(arr, i, acc) ==
    IF i > Len(arr) THEN acc
    ELSE ReduceLeft(arr, i + 1, Wrap([id |-> i, kind |-> arr[i]], acc))

BuildPipeline_Reduce(mws, core) == ReduceLeft(mws, 1, <<[id |-> 0, kind |-> core]>>)

\* buildPipeline({middleware, core})
BuildPipeline(mws, core) == ReduceRight(mws, Len(mws), <<[id |-> 0, kind |-> core]>>)

\* a NatsConnection: which one it is (DefaultConnection, or a connection of the pool), the
\* bus it is connected to, whether it was opened with credentials of the auth provider
NoConnection == [id |-> -1, url |-> <<>>, authenticated |-> FALSE]

\* the envelope: resolved.subject, resolved.natsUrl ("" and <<>> when missing), ctx.timeoutMs
NoEnvelope == [subject |-> "", natsUrl |-> <<>>, timeoutMs |-> 0]
NoInvocation ==
    [pc |-> "idle", api |-> "", core |-> "", at |-> 0, env |-> NoEnvelope,
     signal |-> [aborted |-> FALSE], startedAt |-> 0, coreStartedAt |-> 0, reqAt |-> 0,
     trace |-> <<>>, out |-> NoOutcome, raised |-> NoOutcome, timedOut |-> FALSE,
     params |-> [subject |-> "", natsUrl |-> <<>>], nats |-> NoConnection, sentOn |-> ""]

RECURSIVE Ascend(_, _, _)
\* the outcome k.out goes back through the handlers outside position i + 1: a middleware
\* that awaits next runs its code after next when next has returned, and lets an
\* exception through
Ascend(h, i, k) ==
    IF i = 0 THEN [k EXCEPT !.pc = "returned", !.at = 0]
    ELSE IF h[i].kind = "pass" /\ k.out.kind = "result"
         THEN Ascend(h, i - 1, [k EXCEPT !.trace = Append(@, <<"post", h[i].id>>)])
         ELSE Ascend(h, i - 1, k)

CoreStart_NoUrlCheck(h, i, k) ==
    LET k1 == [k EXCEPT !.trace = Append(@, <<"core", 0>>)] IN
    IF k.env.subject = ""
    THEN Ascend(h, i - 1, [k1 EXCEPT !.out = CapabilityError("UNKNOWN_SUBJECT", FALSE, "")])
    ELSE [k1 EXCEPT !.pc = "connecting", !.at = i,
                    !.trace = Append(@, <<"getOrConnect", 0>>)]

\* the transport core up to the await of connectionPool.getOrConnect (lines 101-119)
CoreStart(h, i, k) ==
    LET k1 == [k EXCEPT !.trace = Append(@, <<"core", 0>>)] IN
    IF k.env.subject = ""
    THEN Ascend(h, i - 1, [k1 EXCEPT !.out = CapabilityError("UNKNOWN_SUBJECT", FALSE, "")])
    ELSE IF k.env.natsUrl = <<>>
    THEN Ascend(h, i - 1, [k1 EXCEPT !.out = CapabilityError("INTERNAL_ERROR", FALSE, "")])
    ELSE [k1 EXCEPT !.pc = "connecting", !.at = i,
                    !.trace = Append(@, <<"getOrConnect", 0>>)]

\* the resolve middleware's test (resolve.ts line 36): env.resolved has a subject and a natsUrl
AlreadyResolved(env) == env.subject # "" /\ env.natsUrl # <<>>

RECURSIVE Descend(_, _, _)
\* the handler at position i of h is called.  The kinds of stage:
\*   enrich     createEnrichContextMiddleware (no token provider): returns next(env, signal)
\*   resolve    createResolveMiddleware
\*   pass       code, await next(env, signal), code, the result returned
\*   short      code, a result returned without a call of next
\*   throw      code that throws an Error;  throwCap  code that throws a CapabilityError
\*   core       the NATS transport core;  coreOk, coreThrow  a core that returns / throws
Descend(h, i, k) ==
    LET st  == h[i]
        pre == [k EXCEPT !.trace = Append(@, <<"pre", st.id>>)]
    IN CASE st.kind \in {"enrich", "pass"} -> Descend(h, i + 1, pre)
         [] st.kind = "resolve" ->
                IF AlreadyResolved(k.env)
                THEN Descend(h, i + 1, pre)
                ELSE [pre EXCEPT !.pc = "resolving", !.at = i,
                                 !.trace = Append(@, <<"resolve", 0>>)]
         [] st.kind = "short" -> Ascend(h, i - 1, [pre EXCEPT !.out = OkResult(None)])
         [] st.kind = "throw" -> Ascend(h, i - 1, [pre EXCEPT !.out = OtherError("")])
         [] st.kind = "throwCap" ->
                Ascend(h, i - 1,
                       [pre EXCEPT !.out = CapabilityError("VALIDATION_ERROR", FALSE, "d")])
         [] st.kind = "coreOk" ->
                Ascend(h, i - 1, [k EXCEPT !.trace = Append(@, <<"core", 0>>),
                                           !.out = OkResult(None)])
         [] st.kind = "coreThrow" ->
                Ascend(h, i - 1, [k EXCEPT !.trace = Append(@, <<"core", 0>>),
                                           !.out = OtherError("")])
         [] st.kind = "core" -> CoreStart(h, i, k)

\* invoke / invokeSubject, lines 231-235: what the pipeline returned is returned, what it
\* threw goes through toErrorResult
Facade(k, t) ==
    IF k.pc # "returned" THEN k
    ELSE [k EXCEPT !.pc = "done", !.raised = k.out,
                   !.out = IF k.out.kind = "throw"
                           THEN ToErrorResult(k.out, k.startedAt, t)
                           ELSE k.out]

RECURSIVE SeqsUpTo(_, _)
\* the sequences over S of length n or less
SeqsUpTo(S, n) ==
    IF n = 0 THEN {<<>>}
    ELSE SeqsUpTo(S, n - 1) \cup {Append(q, x) : q \in SeqsUpTo(S, n - 1), x \in S}

HasEvent(tr, name) == \E j \in 1..Len(tr) : tr[j][1] = name

-----------------------------------------------------------------------------
(* SpecPipeline: buildPipeline applied to a middleware array and a core, the handler run *)

PipelineKinds == {"pass", "short", "throw"}
PipelineCores == {"coreOk", "coreThrow"}

InitPipeline ==
    /\ now = 0 /\ cfg = None /\ cache = <<>>
    /\ IdleTtl /\ IdleDedup /\ IdleRes /\ IdlePool
    /\ IdleLife /\ IdleSub /\ IdleWork /\ IdleAux
    /\ middleware \in SeqsUpTo(PipelineKinds, MaxStages)
    /\ inv = NoInvocation

\* buildPipeline({middleware, core})(env, signal)
RunPipeline(core) ==
    /\ inv.pc = "idle"
    /\ inv' = Descend(BuildPipeline(middleware, core), 1, [NoInvocation EXCEPT !.core = core])
    /\ UNCHANGED <<now, cfg, cache, ttlVars, dedupVars, resVars, poolVars, middleware,
                   lifeVars, subVars, workVars, auxVars>>

NextPipeline == \E core \in PipelineCores : RunPipeline(core)

SpecPipeline == InitPipeline /\ [][NextPipeline]_vars

\* the first middleware of the array that does not call next; Len + 1 when all do
FirstStop(mws) ==
    IF \E i \in 1..Len(mws) : mws[i] # "pass"
    THEN CHOOSE i \in 1..Len(mws) : mws[i] # "pass" /\ \A j \in 1..(i - 1) : mws[j] = "pass"
    ELSE Len(mws) + 1

\* C16: the handler built by buildPipeline from [m0, ..., mn] and core runs the code
\* before next of m0, m1, ... in the order of the array, then the core, then the code
\* after next in the opposite order; behind a middleware that does not call next no inner
\* stage runs, nor the core; the code after next is not run when next has thrown.
C16_PipelineOrder ==
    inv.pc = "returned" =>
        LET n      == Len(middleware)
            k      == FirstStop(middleware)
            last   == IF k > n THEN n ELSE k
            thrown == IF k > n THEN inv.core = "coreThrow" ELSE middleware[k] = "throw"
            m      == IF k > n THEN n ELSE k - 1
        IN inv.trace =
               [j \in 1..last |-> <<"pre", j>>]
               \o (IF k > n THEN << <<"core", 0>> >> ELSE <<>>)
               \o (IF thrown THEN <<>> ELSE [j \in 1..m |-> <<"post", m + 1 - j>>])

\* three middleware have run around a core that returned
C16_Witness ==
    /\ inv.pc = "returned" /\ middleware = <<"pass", "pass", "pass">>
    /\ inv.core = "coreOk" /\ Len(inv.trace) = 7

-----------------------------------------------------------------------------
(* SpecInvoke: one CapabilityClient, its invocations one at a time: the pipeline of       *)
(* buildClientPipeline, the resolution client, the connection pool and the bus as they    *)
(* answer                                                                                 *)

\* config.defaultTimeoutMs (scaled)
InvokeConfig == [defaultTimeoutMs |-> 2000]

\* a remote bus, and the natsUrl values of a route: the default bus as configured and in
\* another spelling, and the remote bus
RemoteNatsUrl == <<"n", "a", "t", "s", ":", "/", "/", "r">>
InvokeUrls ==
    {DefaultNatsUrl, <<"N", "A", "T", "S", ":", "/", "/", "d", "/">>, RemoteNatsUrl}

\* the calls: invoke(capRef, params, ctx) and invokeSubject({natsUrl, subject, timeoutMs})
InvokeInputs ==
    {[api |-> "invoke", subject |-> "", natsUrl |-> <<>>, timeoutMs |-> t] :
        t \in {None, Some(1000)}}
    \cup {[api |-> "invokeSubject", subject |-> r[1], natsUrl |-> r[2], timeoutMs |-> None] :
            r \in ({"ps"} \X InvokeUrls) \cup {<<"", RemoteNatsUrl>>, <<"ps", <<>> >>}}

\* what resolutionClient.resolve gives the resolve middleware: a route as the registry
\* sent it (natsUrl or subject may be missing), or the rejection of the resolution client
ResolveOutcomes ==
    {[ok |-> TRUE, subject |-> r[1], natsUrl |-> r[2], err |-> NoOutcome] :
        r \in ({"rs"} \X InvokeUrls) \cup {<<"", RemoteNatsUrl>>, <<"rs", <<>> >>}}
    \cup {[ok |-> FALSE, subject |-> "", natsUrl |-> <<>>, err |-> OtherError("NOT_FOUND")]}

\* the connection initialize hands the pool as its default, and a connection the pool
\* has opened to url
DefaultBusConnection ==
    [id |-> DefaultConnection, url |-> NormalizeUrl(DefaultNatsUrl), authenticated |-> FALSE]
PooledConnection(url) == [id |-> 1, url |-> url, authenticated |-> TRUE]

GetOrConnectOutcomes_AlwaysDefault(natsUrl) ==
    {[ok |-> TRUE, nats |-> DefaultBusConnection, err |-> NoOutcome]}

\* what connectionPool.getOrConnect(natsUrl) gives the core, for the pool that initialize
\* builds over the default connection and defaultNatsUrl: the default connection for the
\* default url, else the url's pooled connection or the pool's error
GetOrConnectOutcomes(natsUrl) ==
    IF NormalizeUrl(natsUrl) = NormalizeUrl(DefaultNatsUrl)
    THEN {[ok |-> TRUE, nats |-> DefaultBusConnection, err |-> NoOutcome]}
    ELSE {[ok |-> TRUE, nats |-> PooledConnection(NormalizeUrl(natsUrl)), err |-> NoOutcome],
          [ok |-> FALSE, nats |-> NoConnection,
           err |-> CapabilityError("AUTH_FAILED", TRUE, "")]}

\* what the worker replies: {ok: true}, {ok: false, error}, {ok: false}, or no JSON
ReplyOutcomes ==
    {[json |-> TRUE, ok |-> TRUE, code |-> None, retryable |-> None],
     [json |-> TRUE, ok |-> FALSE, code |-> Some("NOT_FOUND"), retryable |-> Some(TRUE)],
     [json |-> TRUE, ok |-> FALSE, code |-> None, retryable |-> None],
     [json |-> FALSE, ok |-> FALSE, code |-> None, retryable |-> None]}

\* the handler of buildClientPipeline
ClientPipeline == BuildPipeline(<<"enrich", "resolve">> \o middleware, "core")

ExtraKinds == {"pass", "short", "throw", "throwCap"}

InitInvoke ==
    /\ now = 0 /\ cfg = None /\ cache = <<>>
    /\ IdleTtl /\ IdleDedup /\ IdlePool
    /\ initialized \in BOOLEAN /\ initCall = "none" /\ bootstrapped = {}
    /\ fallbackMappings = {} /\ pending = {} /\ flights = {} /\ pc = <<>> /\ call = <<>>
    /\ hist = {} /\ bg = None
    /\ IdleLife /\ IdleSub /\ IdleWork /\ IdleAux
    /\ middleware \in SeqsUpTo(ExtraKinds, MaxExtra)
    /\ inv = NoInvocation

\* the timer of the bus request in flight is due
RequestDue == inv.pc = "requesting" /\ now >= inv.reqAt + inv.env.timeoutMs

\* invoke / invokeSubject up to the first await on the registry or the pool
InvokeStart(in) ==
    /\ inv.pc = "idle"
    /\ IF ~initialized
       THEN inv' = [NoInvocation EXCEPT !.pc = "done", !.api = in.api,
                                        !.out = OtherError(""), !.raised = OtherError("")]
       ELSE LET ctx == [timeoutMs |-> IF in.timeoutMs # None THEN in.timeoutMs[1]
                                      ELSE InvokeConfig.defaultTimeoutMs]
                k0  == [NoInvocation EXCEPT
                           !.api = in.api, !.core = "core", !.startedAt = now,
                           !.env = [subject |-> in.subject, natsUrl |-> in.natsUrl,
                                    timeoutMs |-> ctx.timeoutMs],
                           !.params = [subject |-> in.subject, natsUrl |-> in.natsUrl],
                           !.signal = ComposeAbort(None, ctx)]
            IN inv' = Facade(Descend(ClientPipeline, 1, k0), now)
    /\ UNCHANGED <<now, cfg, cache, ttlVars, dedupVars, resVars, poolVars, middleware,
                   lifeVars, subVars, workVars, auxVars>>

\* resolutionClient.resolve settles: the resolve middleware sets env.resolved and calls next
ResolveDone(o) ==
    /\ inv.pc = "resolving"
    /\ inv' = IF o.ok
              THEN Facade(Descend(ClientPipeline, inv.at + 1,
                                  [inv EXCEPT !.pc = "running", !.env.subject = o.subject,
                                              !.env.natsUrl = o.natsUrl]), now)
              ELSE Facade(Ascend(ClientPipeline, inv.at - 1, [inv EXCEPT !.out = o.err]), now)
    /\ UNCHANGED <<now, cfg, cache, ttlVars, dedupVars, resVars, poolVars, middleware,
                   lifeVars, subVars, workVars, auxVars>>

\* getOrConnect settles: the core sends the request with timeout ctx.timeoutMs (lines 119-139)
GetOrConnectDone(o) ==
    /\ inv.pc = "connecting"
    /\ inv' = IF o.ok
              THEN [inv EXCEPT !.pc = "requesting", !.coreStartedAt = now, !.reqAt = now,
                               !.nats = o.nats, !.sentOn = inv.env.subject,
                               !.trace = Append(@, <<"request", 0>>)]
              ELSE Facade(Ascend(ClientPipeline, inv.at - 1, [inv EXCEPT !.out = o.err]), now)
    /\ UNCHANGED <<now, cfg, cache, ttlVars, dedupVars, resVars, poolVars, middleware,
                   lifeVars, subVars, workVars, auxVars>>

\* the worker's reply arrives (lines 141-169)
RequestReply(o) ==
    /\ inv.pc = "requesting"
    /\ LET meta == Meta(inv.coreStartedAt, now)
           out  == IF ~o.json THEN CapabilityError("INTERNAL_ERROR", FALSE, "")
                   ELSE IF o.ok THEN OkResult(meta)
                   ELSE ErrResult(IF o.code # None THEN o.code[1] ELSE "INTERNAL_ERROR",
                                  IF o.retryable # None THEN o.retryable[1] ELSE FALSE,
                                  "", meta)
       IN inv' = Facade(Ascend(ClientPipeline, inv.at - 1, [inv EXCEPT !.out = out]), now)
    /\ UNCHANGED <<now, cfg, cache, ttlVars, dedupVars, resVars, poolVars, middleware,
                   lifeVars, subVars, workVars, auxVars>>

\* no reply within the timeout: nats rejects the request with its own error,
\* a NatsError with code "TIMEOUT"
RequestTimeout ==
    /\ RequestDue
    /\ inv' = Facade(Ascend(ClientPipeline, inv.at - 1,
                            [inv EXCEPT !.out = OtherError("TIMEOUT"), !.timedOut = TRUE]),
                     now)
    /\ UNCHANGED <<now, cfg, cache, ttlVars, dedupVars, resVars, poolVars, middleware,
                   lifeVars, subVars, workVars, auxVars>>

\* time passes, 1 s at a time, a due timer fires first
InvokeTick ==
    /\ inv.pc \in {"resolving", "connecting", "requesting"} /\ ~RequestDue
    /\ Advance(1000, MaxInvTicks)
    /\ UNCHANGED <<cfg, cache, ttlVars, dedupVars, resVars, poolVars, invVars,
                   lifeVars, subVars, workVars, auxVars>>

\* the caller has the outcome
InvokeReturn ==
    /\ inv.pc = "done"
    /\ inv' = NoInvocation
    /\ UNCHANGED <<now, cfg, cache, ttlVars, dedupVars, resVars, poolVars, middleware,
                   lifeVars, subVars, workVars, auxVars>>

NextInvoke ==
    \/ \E in \in InvokeInputs : InvokeStart(in)
    \/ \E o \in ResolveOutcomes : ResolveDone(o)
    \/ \E o \in GetOrConnectOutcomes(inv.env.natsUrl) : GetOrConnectDone(o)
    \/ \E o \in ReplyOutcomes : RequestReply(o)
    \/ RequestTimeout
    \/ InvokeTick
    \/ InvokeReturn

SpecInvoke == InitInvoke /\ [][NextInvoke]_vars

\* C17: on an initialized client invoke and invokeSubject do not throw: an exception raised
\* inside the pipeline comes back as a result {ok: false} with meta; code, retryable and
\* details are those of the exception when it is a CapabilityError, and INTERNAL_ERROR,
\* not retryable, for any other exception.
C17_ErrorsBecomeResults ==
    (initialized /\ inv.pc = "done") =>
        /\ inv.out.kind = "result"
        /\ inv.raised.kind = "throw"
           => /\ ~inv.out.ok
              /\ inv.out.meta = Meta(inv.startedAt, now)
              /\ IF inv.raised.isCapabilityError
                 THEN /\ inv.out.code = inv.raised.code
                      /\ inv.out.retryable = inv.raised.retryable
                      /\ inv.out.details = inv.raised.details
                 ELSE inv.out.code = "INTERNAL_ERROR" /\ ~inv.out.retryable

\* a CapabilityError of the pool (AUTH_FAILED, retryable) has come back as a result
C17_Witness ==
    /\ initialized /\ inv.pc = "done"
    /\ inv.raised.kind = "throw" /\ inv.raised.isCapabilityError
    /\ inv.out.code = "AUTH_FAILED" /\ inv.out.retryable

\* C18: when the worker does not reply within ctx.timeoutMs, invoke returns {ok: false}
\* with error code TIMEOUT and retryable = true.
C18_TimeoutResult ==
    (inv.pc = "done" /\ inv.timedOut) =>
        (~inv.out.ok /\ inv.out.code = "TIMEOUT" /\ inv.out.retryable)

\* C19: the cancel signal the pipeline stages and the core receive has fired once
\* timeoutMs have elapsed since the invocation began.
C19_SignalFiresAtDeadline ==
    (inv.pc \in {"resolving", "connecting", "requesting"}
        /\ now >= inv.startedAt + inv.env.timeoutMs)
    => inv.signal.aborted

\* C20: the transport core calls getOrConnect and sends a request only for an envelope
\* with resolved.subject and resolved.natsUrl both non-empty; it throws UNKNOWN_SUBJECT
\* when the subject is missing, INTERNAL_ERROR when only the natsUrl is missing.
C20_CorePreconditions ==
    /\ (HasEvent(inv.trace, "getOrConnect") \/ HasEvent(inv.trace, "request")
           \/ inv.pc \in {"connecting", "requesting"})
       => (inv.env.subject # "" /\ inv.env.natsUrl # <<>>)
    /\ (inv.pc = "done" /\ HasEvent(inv.trace, "core") /\ inv.env.subject = "")
       => inv.raised = CapabilityError("UNKNOWN_SUBJECT", FALSE, "")
    /\ (inv.pc = "done" /\ HasEvent(inv.trace, "core") /\ inv.env.subject # ""
           /\ inv.env.natsUrl = <<>>)
       => inv.raised = CapabilityError("INTERNAL_ERROR", FALSE, "")

\* the core was given an envelope with a subject and no natsUrl
C20_Witness ==
    /\ inv.pc = "done" /\ HasEvent(inv.trace, "core")
    /\ inv.env.subject # "" /\ inv.env.natsUrl = <<>>
    /\ ~HasEvent(inv.trace, "getOrConnect")

BypassesResolution ==
    /\ ~HasEvent(inv.trace, "resolve")
    /\ HasEvent(inv.trace, "request")
       => /\ inv.sentOn = inv.params.subject
          /\ \E o \in GetOrConnectOutcomes(inv.params.natsUrl) : o.ok /\ o.nats = inv.nats

\* C30: every invokeSubject call leaves the resolution client alone and sends
\* its request on params.subject over the connection for params.natsUrl.
C30_InvokeSubjectBypassesResolution ==
    inv.api = "invokeSubject" => BypassesResolution

-----------------------------------------------------------------------------
(* InvalidationSubscriber (src/common/node/src/policy/decision.ts, lines 70-177) *)

\* new InvalidationSubscriber(config) followed by addHandler for each handler; a handler
\* is "client" (CapabilityClient's, part_009 lines 184-189), "throws" or "other";
\* got[h] counts the events handler h was called with, events the decodable messages
\* and bad the undecodable ones the subscription loops received while running
NewSubscriber(handlers) ==
    [running |-> FALSE, subscriptions |-> {}, handlers |-> handlers,
     got |-> [h \in 1..Len(handlers) |-> 0], events |-> 0, bad |-> 0]

\* start(natsConnection): no-op when running, else subscribes the global subject and the
\* granular wildcard
SubscriberStart(s) ==
    IF s.running THEN s
    ELSE [s EXCEPT !.running = TRUE, !.subscriptions = {"global", "granular"}]

\* stop(): no-op when not running, else unsubscribes every subscription
SubscriberStop(s) ==
    IF ~s.running THEN s
    ELSE [s EXCEPT !.running = FALSE, !.subscriptions = {}]

-----------------------------------------------------------------------------
(* SpecLifecycle: CapabilityClient.initialize and close (src/unnamed/part_009, lines      *)
(* 84-196 and 314-322), called at any time, also while an earlier call is waiting         *)

MaxInitCalls == 2     \* initialize is called at most this often
MaxCloses    == 1     \* close is called at most this often

\* the fields after the constructor, given options.natsConnection (0: none)
NewClient(natsConnection) ==
    [natsConnection |-> natsConnection, ownNatsConnection |-> FALSE, connectionPool |-> 0,
     invalidationSubscriber |-> 0, pipeline |-> 0]

\* what the bootstrap subject answers with
LifecycleBootstrap == <<RegistryCap>>

ClosesDefault_Always(cl) == cl.natsConnection # 0

\* close, line 320: the default connection is closed if the client owns it
ClosesDefault(cl) == cl.ownNatsConnection /\ cl.natsConnection # 0

InitLifecycle ==
    /\ now = 0 /\ cfg = None /\ cache = <<>>
    /\ IdleTtl /\ IdleDedup /\ IdleRes /\ IdlePool /\ IdleInv /\ IdleSub /\ IdleWork /\ IdleAux
    /\ \E supplied \in BOOLEAN :
          /\ conns = IF supplied THEN <<[by |-> "caller", state |-> "open"]>> ELSE <<>>
          /\ client = NewClient(IF supplied THEN 1 ELSE 0)
    /\ pools = <<>> /\ icall = <<>>
    /\ wire = [bootstrapSent |-> 0, bootstrapFailed |-> 0]
    /\ ccall = [pc |-> "idle", n |-> 0, log |-> <<>>, sub |-> 0, pool |-> 0, conn |-> 0]

\* initialize() up to its first await: connect(), or the bootstrap request when a
\* connection is there already
Initialize ==
    /\ Len(icall) < MaxInitCalls
    /\ IF initialized
       THEN /\ icall' = Append(icall, [pc |-> "done", conn |-> 0])
            /\ UNCHANGED <<conns, wire, cache, cfg>>
       ELSE IF client.natsConnection = 0
       THEN /\ conns' = Append(conns, [by |-> "client", state |-> "connecting"])
            /\ icall' = Append(icall, [pc |-> "connect", conn |-> Len(conns) + 1])
            /\ UNCHANGED <<wire, cache, cfg>>
       ELSE /\ icall' = Append(icall, [pc |-> "bootstrap", conn |-> client.natsConnection])
            /\ cfg' = ResolutionCacheConfigOf(ClientConfig) /\ cache' = <<>>
            /\ wire' = [wire EXCEPT !.bootstrapSent = @ + 1]
            /\ UNCHANGED conns
    /\ UNCHANGED <<now, ttlVars, dedupVars, resVars, poolVars, invVars, client, pools,
                   ccall, subVars, workVars, auxVars>>

\* connect() of call i resolves: the connection is the client's own, the resolution
\* cache is created and the bootstrap request sent
InitConnected(i) ==
    /\ i \in 1..Len(icall) /\ icall[i].pc = "connect"
    /\ conns' = [conns EXCEPT ![icall[i].conn].state = "open"]
    /\ client' = [client EXCEPT !.natsConnection = icall[i].conn,
                                !.ownNatsConnection = TRUE]
    /\ cfg' = ResolutionCacheConfigOf(ClientConfig) /\ cache' = <<>>
    /\ wire' = [wire EXCEPT !.bootstrapSent = @ + 1]
    /\ icall' = [icall EXCEPT ![i].pc = "bootstrap"]
    /\ UNCHANGED <<now, ttlVars, dedupVars, resVars, poolVars, invVars, pools, ccall,
                   subVars, workVars, auxVars>>

\* the bootstrap request of call i is answered, or fails (it fails on a closed
\* connection): the cache is seeded, the pool, the sub-clients and the invalidation
\* subscriber are created, the subscriber started, the pipeline built
InitBootstrapped(i, ok) ==
    /\ i \in 1..Len(icall) /\ icall[i].pc = "bootstrap"
    /\ ok => conns[icall[i].conn].state = "open"
    /\ IF ok
       THEN /\ cache' = SeedBootstrap(cache, LifecycleBootstrap, now, cfg)
            /\ bootstrapped' = {LifecycleBootstrap[j] : j \in 1..Len(LifecycleBootstrap)}
            /\ pools' = Append(pools, [defaultConnection |-> client.natsConnection,
                                       remote |-> 0])
            /\ subscribers' = Append(subscribers,
                                     SubscriberStart(NewSubscriber(<<"client">>)))
            /\ client' = [client EXCEPT !.connectionPool = Len(pools) + 1,
                                        !.invalidationSubscriber = Len(subscribers) + 1,
                                        !.pipeline = @ + 1]
            /\ initialized' = TRUE
            /\ icall' = [icall EXCEPT ![i].pc = "done"]
            /\ UNCHANGED wire
       ELSE /\ icall' = [icall EXCEPT ![i].pc = "failed"]
            /\ wire' = [wire EXCEPT !.bootstrapFailed = @ + 1]
            /\ UNCHANGED <<cache, bootstrapped, pools, subscribers, client, initialized>>
    /\ UNCHANGED <<now, cfg, ttlVars, dedupVars, initCall, fallbackMappings, bg, pending,
                   flights, pc, call, hist, poolVars, invVars, conns, ccall, discovery,
                   delivered, workVars, auxVars>>

\* an invocation on a remote bus makes the client's pool open a connection
RemoteConnect ==
    /\ initialized /\ client.connectionPool # 0
    /\ pools[client.connectionPool].remote = 0
    /\ pools' = [pools EXCEPT ![client.connectionPool].remote = 1]
    /\ UNCHANGED <<now, cfg, cache, ttlVars, dedupVars, resVars, poolVars, invVars,
                   client, conns, icall, wire, ccall, subVars, workVars, auxVars>>

\* close() from the end of closeAll: the default connection's close() is awaited, or
\* close() is over; k is the close call so far
CloseDefault(k) ==
    IF ClosesDefault(client)
    THEN /\ ccall' = [k EXCEPT !.pc = "closing", !.conn = client.natsConnection]
         /\ UNCHANGED initialized
    ELSE /\ ccall' = [k EXCEPT !.pc = "done", !.n = @ + 1]
         /\ initialized' = FALSE

\* close() up to its first await on the bus: the subscriber is stopped; closeAll waits
\* for the drains when the pool holds connections
Close ==
    /\ ccall.pc \in {"idle", "done"} /\ ccall.n < MaxCloses
    /\ LET s  == client.invalidationSubscriber
           p  == client.connectionPool
           k0 == [ccall EXCEPT !.sub = s, !.pool = p, !.conn = 0,
                               !.log = IF s # 0 THEN <<"stop">> ELSE <<>>]
       IN /\ subscribers' = IF s # 0 THEN [subscribers EXCEPT ![s] = SubscriberStop(@)]
                            ELSE subscribers
          /\ IF p # 0 /\ pools[p].remote > 0
             THEN ccall' = [k0 EXCEPT !.pc = "closeAll"] /\ UNCHANGED initialized
             ELSE CloseDefault(IF p # 0 THEN [k0 EXCEPT !.log = Append(@, "closeAll")]
                               ELSE k0)
    /\ UNCHANGED <<now, cfg, cache, ttlVars, dedupVars, initCall, bootstrapped,
                   fallbackMappings, bg, pending, flights, pc, call, hist, poolVars, invVars,
                   client, conns, pools, icall, wire, discovery, delivered, workVars, auxVars>>

\* the drains of closeAll are over and the pool is cleared
CloseAllDone ==
    /\ ccall.pc = "closeAll"
    /\ pools' = [pools EXCEPT ![ccall.pool].remote = 0]
    /\ CloseDefault([ccall EXCEPT !.log = Append(@, "closeAll")])
    /\ UNCHANGED <<now, cfg, cache, ttlVars, dedupVars, initCall, bootstrapped,
                   fallbackMappings, bg, pending, flights, pc, call, hist, poolVars, invVars,
                   client, conns, icall, wire, subVars, workVars, auxVars>>

\* the default connection's close() is over
CloseDone ==
    /\ ccall.pc = "closing"
    /\ conns' = [conns EXCEPT ![ccall.conn].state = "closed"]
    /\ ccall' = [ccall EXCEPT !.pc = "done", !.n = @ + 1,
                              !.log = Append(@, "closeDefault")]
    /\ initialized' = FALSE
    /\ UNCHANGED <<now, cfg, cache, ttlVars, dedupVars, initCall, bootstrapped,
                   fallbackMappings, bg, pending, flights, pc, call, hist, poolVars, invVars,
                   client, pools, icall, wire, subVars, workVars, auxVars>>

NextLifecycle ==
    \/ Initialize
    \/ \E i \in 1..MaxInitCalls : InitConnected(i)
    \/ \E i \in 1..MaxInitCalls, ok \in BOOLEAN : InitBootstrapped(i, ok)
    \/ RemoteConnect
    \/ Close
    \/ CloseAllDone
    \/ CloseDone

SpecLifecycle == InitLifecycle /\ [][NextLifecycle]_vars

\* C22: once every initialize call has completed (none failed, close not called), the
\* bootstrap request has been sent once and there is one default connection, one
\* connection pool, one running invalidation subscriber and one pipeline build, however
\* the calls overlapped.
C22_InitializeIdempotent ==
    (/\ initialized /\ ccall.pc = "idle" /\ wire.bootstrapFailed = 0
     /\ icall # <<>> /\ \A i \in 1..Len(icall) : icall[i].pc = "done")
    => /\ wire.bootstrapSent = 1
       /\ Len(conns) = 1
       /\ Len(pools) = 1
       /\ Cardinality({j \in 1..Len(subscribers) : subscribers[j].running}) = 1
       /\ client.pipeline = 1

\* the steps close() takes for a client with subscriber sub, pool and a default
\* connection to close
CloseSteps(s, p, c) ==
    (IF s # 0 THEN <<"stop">> ELSE <<>>) \o (IF p # 0 THEN <<"closeAll">> ELSE <<>>)
    \o (IF c # 0 THEN <<"closeDefault">> ELSE <<>>)

\* C23: close stops the invalidation subscriber, then has the pool close its
\* connections, then closes the default connection exactly when the client opened it
\* itself; a connection the caller supplied is never closed.
C23_CloseOrder ==
    [][/\ \A c \in 1..Len(conns') : conns'[c].by = "caller" => conns'[c].state = "open"
       /\ (ccall'.log # ccall.log /\ ccall'.log # <<>>) =>
             LET e == ccall'.log[Len(ccall'.log)] IN
             /\ ccall'.sub # 0 => ~subscribers'[ccall'.sub].running
             /\ e = "closeAll" => pools'[ccall'.pool].remote = 0
             /\ e = "closeDefault" => /\ conns'[ccall'.conn].state = "closed"
                                      /\ conns'[ccall'.conn].by = "client"
       /\ ccall'.n # ccall.n =>
             /\ ccall'.log = CloseSteps(ccall'.sub, ccall'.pool, ccall'.conn)
             /\ ccall'.conn # 0 <=> /\ client'.natsConnection # 0
                                    /\ conns'[client'.natsConnection].by = "client"]_vars

\* close has run all three steps on a client that had opened its connection itself and
\* whose pool held a remote connection
C23_Witness ==
    /\ ccall.pc = "done" /\ ccall.log = <<"stop", "closeAll", "closeDefault">>
    /\ conns[ccall.conn].by = "client" /\ conns[ccall.conn].state = "closed"
    /\ pools[ccall.pool].remote = 0 /\ ~subscribers[ccall.sub].running

-----------------------------------------------------------------------------
(* Cache invalidation from registry change events: SpecInvalidation
   (part_009 lines 179-190, decision.ts lines 157-176, cache.ts lines 92-95) *)

MaxEvents == 3
MaxCached == 2

EventApp == <<"a">>
EventCapability == <<"c">>

\* what resolve() is called with: every form of (a, c) and the dotted name the prefix is
\* built as
CachedRefs == RefForms(EventApp, EventCapability) \cup {<<"a", ".", "c">>}
CachedVers == {None, Some(<<"1">>)}
CachedTenants == {<<>>, <<"t">>}

\* the message bodies: a change event for (a, c), one without app, one that is not JSON
ChangeMessages ==
    {[json |-> TRUE, app |-> EventApp, capability |-> EventCapability],
     [json |-> TRUE, app |-> <<>>, capability |-> EventCapability],
     [json |-> FALSE, app |-> <<>>, capability |-> <<>>]}

HandlerLists ==
    {<<"client">>, <<"throws", "client">>, <<"client", "throws", "other">>}

\* the handler loop that lets the first exception end the dispatch of the event
Dispatch_StopAtThrow(s) ==
    [s EXCEPT !.got = [h \in 1..Len(s.handlers) |->
                          IF \E g \in 1..(h - 1) : s.handlers[g] = "throws"
                          THEN s.got[h] ELSE s.got[h] + 1],
              !.events = @ + 1]

\* processSubscription lines 164-170: every handler is called with the event, each in
\* its own try/catch
Dispatch(s) ==
    [s EXCEPT !.got = [h \in 1..Len(s.handlers) |-> s.got[h] + 1], !.events = @ + 1]

InitInvalidation ==
    /\ now = 0 /\ cfg = ResolutionCacheConfigOf(ClientConfig) /\ cache = <<>>
    /\ IdleTtl /\ IdleDedup /\ IdleRes /\ IdlePool /\ IdleInv /\ IdleLife /\ IdleWork /\ IdleAux
    /\ \E handlers \in HandlerLists : subscribers = <<NewSubscriber(handlers)>>
    /\ discovery = {} /\ delivered = None

\* invalidationSubscriber.start(natsConnection)
SubStart ==
    /\ subscribers' = [subscribers EXCEPT ![1] = SubscriberStart(@)]
    /\ UNCHANGED <<cache, discovery, delivered>>

\* invalidationSubscriber.stop()
SubStop ==
    /\ subscribers' = [subscribers EXCEPT ![1] = SubscriberStop(@)]
    /\ UNCHANGED <<cache, discovery, delivered>>

\* a resolve that stored the registry's answer under the key of (cap, ver, ctx)
CacheResolved(cap, ver, tenantId) ==
    /\ Len(cache) < MaxCached
    /\ cache' = RCSet(cache, CacheParams(cap, ver, MiddlewareCtx(tenantId)),
                      RegistryValue(1, 0), None, now, cfg)
    /\ delivered' = None
    /\ UNCHANGED <<subscribers, discovery>>

\* a discover that stored its page (DiscoveryCache.set)
DiscoverStored ==
    /\ discovery = {}
    /\ discovery' = {<<"discover">>}
    /\ delivered' = None
    /\ UNCHANGED <<subscribers, cache>>

\* one message of a subscription reaches processSubscription (lines 157-176): JSON.parse,
\* then every handler; the client's handler (part_009 lines 184-189) invalidates the
\* capability when the event names app and capability, and the discovery cache always
ChangeEvent(via, msg) ==
    LET s == subscribers[1]
        hasClient == \E h \in 1..Len(s.handlers) : s.handlers[h] = "client"
    IN /\ via \in s.subscriptions
       /\ s.running
       /\ s.events + s.bad < MaxEvents
       /\ IF ~msg.json
          THEN /\ subscribers' = [subscribers EXCEPT ![1].bad = @ + 1]
               /\ UNCHANGED <<cache, discovery, delivered>>
          ELSE /\ subscribers' = [subscribers EXCEPT ![1] = Dispatch(s)]
               /\ cache' = IF hasClient /\ msg.app # <<>> /\ msg.capability # <<>>
                           THEN RCInvalidateCapability(cache, msg.app, msg.capability)
                           ELSE cache
               /\ discovery' = IF hasClient THEN {} ELSE discovery
               /\ delivered' = IF hasClient /\ msg.app # <<>> /\ msg.capability # <<>>
                               THEN Some(msg) ELSE delivered

NextInvalidation ==
    /\ \/ SubStart
       \/ SubStop
       \/ \E cap \in CachedRefs, ver \in CachedVers, tenantId \in CachedTenants :
             CacheResolved(cap, ver, tenantId)
       \/ DiscoverStored
       \/ \E via \in {"global", "granular"}, msg \in ChangeMessages : ChangeEvent(via, msg)
    /\ UNCHANGED <<now, cfg, ttlVars, dedupVars, resVars, poolVars, invVars,
                   lifeVars, workVars, auxVars>>

SpecInvalidation == InitInvalidation /\ [][NextInvalidation]_vars

\* C24: once a change event for (app, capability) has been delivered to the client and
\* nothing was cached since, the resolution cache holds no entry of that capability under
\* any reference form, version or tenant, and the discovery cache is empty.
C24_EventFlushesCapability ==
    delivered # None =>
        /\ \A ref \in RefForms(delivered[1].app, delivered[1].capability),
              ver \in CachedVers, tenantId \in CachedTenants :
              ~HasKey(cache, BuildKey(CacheParams(ref, ver, MiddlewareCtx(tenantId)), cfg))
        /\ discovery = {}

\* C25: while the subscriber has run, every handler has been called with every decodable
\* event its subscriptions received, whatever handlers threw and whatever undecodable
\* messages came in between.
C25_DispatchSurvivesFailures ==
    \A j \in 1..Len(subscribers) : \A h \in 1..Len(subscribers[j].handlers) :
        subscribers[j].got[h] = subscribers[j].events

C25_Witness ==
    /\ subscribers # <<>>
    /\ subscribers[1].handlers = <<"client", "throws", "other">>
    /\ subscribers[1].bad = 1 /\ subscribers[1].events = 2
    /\ subscribers[1].got = <<2, 2, 2>>

-----------------------------------------------------------------------------
(* The worker consumer: SpecWorker
   (src/worker/node/src/worker.ts lines 25-91, src/unnamed/part_002 lines 27-46,
    src/unnamed/part_003 lines 60-100, src/client/src/bootstrap/integration.ts
    lines 107-275) *)

MaxReloads == 2

NoResponse == [ok |-> FALSE, code |-> "", retryable |-> FALSE, data |-> ""]

\* message bodies: not JSON; JSON that fails InvocationEnvelopeSchema; an envelope for the
\* registered capability "c" whose handler returns, returns an error or throws; an
\* envelope for "u", which has no registered handler
RequestBodies ==
    {[json |-> FALSE, valid |-> FALSE, capability |-> "", does |-> ""],
     [json |-> TRUE, valid |-> FALSE, capability |-> "", does |-> ""],
     [json |-> TRUE, valid |-> TRUE, capability |-> "u", does |-> ""]}
    \cup [json : {TRUE}, valid : {TRUE}, capability : {"c"},
          does : {"returns", "fails", "throws"}]

\* getHandler(capability)(envelope): the registered handler, else defaultEchoHandler
GetHandler(body) ==
    IF body.capability = "c"
    THEN CASE body.does = "returns" ->
                [threw |-> FALSE,
                 response |-> [NoResponse EXCEPT !.ok = TRUE, !.data = "result"]]
           [] body.does = "fails" ->
                [threw |-> FALSE,
                 response |-> [NoResponse EXCEPT !.code = "HANDLER_ERROR"]]
           [] OTHER -> [threw |-> TRUE, response |-> NoResponse]
    ELSE [threw |-> FALSE, response |-> [NoResponse EXCEPT !.ok = TRUE, !.data = "echo"]]

\* handleMessage without the try/catch around the handler call
HandleMessage_NoCatch(body) ==
    IF ~body.json
    THEN [threw |-> FALSE, response |-> [NoResponse EXCEPT !.code = "INVALID_REQUEST"]]
    ELSE IF ~body.valid
    THEN [threw |-> FALSE, response |-> [NoResponse EXCEPT !.code = "INVALID_ARGUMENT"]]
    ELSE GetHandler(body)

\* handleMessage({body, sandbox})
HandleMessage(body) ==
    IF ~body.json
    THEN [threw |-> FALSE, response |-> [NoResponse EXCEPT !.code = "INVALID_REQUEST"]]
    ELSE IF ~body.valid
    THEN [threw |-> FALSE, response |-> [NoResponse EXCEPT !.code = "INVALID_ARGUMENT"]]
    ELSE LET r == GetHandler(body)
         IN IF r.threw
            THEN [threw |-> FALSE,
                  response |-> [NoResponse EXCEPT !.code = "INTERNAL_ERROR",
                                                  !.retryable = TRUE]]
            ELSE r

\* runWorker's loop body for one message: the responses it sends
RunWorker(body, reply) ==
    LET r == HandleMessage(body)
        response == IF r.threw
                    THEN [NoResponse EXCEPT !.code = "INTERNAL_ERROR", !.retryable = TRUE]
                    ELSE r.response
    IN IF reply THEN <<response>> ELSE <<>>

\* the bootstrap: capability name -> subject ("" when the name is not in it)
WorkerBootstrap(capability) ==
    CASE capability = "c" -> "s.c" [] capability = "k" -> "s.k" [] OTHER -> ""

\* resolvePoolCapabilities({bootstrap, pool})
RECURSIVE ResolvePoolCapabilities(_, _)
ResolvePoolCapabilities(wp, k) ==
    IF k > Len(wp.capabilities) THEN <<>>
    ELSE (IF WorkerBootstrap(wp.capabilities[k]) = "" THEN <<>>
          ELSE <<[capability |-> wp.capabilities[k],
                  subject |-> WorkerBootstrap(wp.capabilities[k]),
                  consumerGroup |-> wp.consumerGroup]>>)
         \o ResolvePoolCapabilities(wp, k + 1)

\* the worker process configurations loadConfig may return
WorkerConfigs ==
    {[sandboxes |-> {"sb"},
      workerPools |-> <<[id |-> "p1", sandboxId |-> "sb", capabilities |-> <<"c">>,
                         concurrentWorkers |-> 2, consumerGroup |-> "g1"]>>],
     [sandboxes |-> {"sb"},
      workerPools |-> <<[id |-> "p1", sandboxId |-> "sb", capabilities |-> <<"c", "x">>,
                         concurrentWorkers |-> 1, consumerGroup |-> "g1"],
                        [id |-> "p2", sandboxId |-> "gone", capabilities |-> <<"k">>,
                         concurrentWorkers |-> 1, consumerGroup |-> "g2"]>>]}

\* connection.subscribe(spec.subject) without the queue option
Subscribe_NoQueue(spec, wp) ==
    [subject |-> spec.subject, queue |-> "", state |-> "active", poolId |-> wp.id,
     group |-> wp.consumerGroup]

\* connection.subscribe(spec.subject, {queue: spec.consumerGroup})
Subscribe(spec, wp) ==
    [subject |-> spec.subject, queue |-> spec.consumerGroup, state |-> "active",
     poolId |-> wp.id, group |-> wp.consumerGroup]

\* startPool(pool): the subscriptions it creates, concurrentWorkers per resolved spec
StartPool(config, wp) ==
    LET specs == ResolvePoolCapabilities(wp, 1)
    IN IF wp.sandboxId \notin config.sandboxes \/ specs = <<>> THEN <<>>
       ELSE [n \in 1..(Len(specs) * wp.concurrentWorkers) |->
                Subscribe(specs[((n - 1) \div wp.concurrentWorkers) + 1], wp)]

\* for (const pool of config.workerPools) await startPool(pool)
RECURSIVE StartPools(_, _)
StartPools(config, k) ==
    IF k > Len(config.workerPools) THEN <<>>
    ELSE StartPool(config, config.workerPools[k]) \o StartPools(config, k + 1)

\* the pools of config started on a manager: every new subscription is pushed on
\* this.subscriptions
Started(st, config) ==
    LET created == StartPools(config, 1)
    IN [st EXCEPT !.wsubs = @ \o created,
                  !.manager.subscriptions =
                      @ \o [n \in 1..Len(created) |-> Len(st.wsubs) + n]]

\* reload r from its drain loop on: `await sub.drain()` for the subscription it is at
\* (rejected for one that is closed already), or, at the end of the array,
\* subscriptions = [], config = newConfig and the pools started
ReloadStep(st, r) ==
    LET rl == st.reloads[r]
    IN IF rl.i > Len(rl.arr)
       THEN Started([st EXCEPT !.manager.subscriptions = <<>>,
                               !.manager.config = rl.config,
                               !.reloads[r].pc = "done"],
                    rl.config)
       ELSE CASE st.wsubs[rl.arr[rl.i]].state = "closed" ->
                    [st EXCEPT !.reloads[r].pc = "failed"]
              [] st.wsubs[rl.arr[rl.i]].state = "active" ->
                    [st EXCEPT !.wsubs[rl.arr[rl.i]].state = "draining",
                               !.reloads[r].pc = "draining"]
              [] OTHER -> [st EXCEPT !.reloads[r].pc = "draining"]

\* the reloads awaiting the drain of subscription s continue, in the order they awaited
RECURSIVE Drained(_, _, _)
Drained(st, s, r) ==
    IF r > Len(st.reloads) THEN st
    ELSE IF st.reloads[r].pc = "draining" /\ st.reloads[r].arr[st.reloads[r].i] = s
    THEN Drained(ReloadStep([st EXCEPT !.reloads[r].i = @ + 1], r), s, r + 1)
    ELSE Drained(st, s, r + 1)

WorkerState == [wsubs |-> wsubs, manager |-> manager, reloads |-> reloads]

InitWorker ==
    /\ now = 0 /\ cfg = None /\ cache = <<>>
    /\ IdleTtl /\ IdleDedup /\ IdleRes /\ IdlePool /\ IdleInv /\ IdleLife /\ IdleSub /\ IdleAux
    /\ wsubs = <<>> /\ reloads = <<>> /\ wmsgs = <<>>
    /\ \E config \in WorkerConfigs :
          manager = [connection |-> "none", config |-> config, subscriptions |-> <<>>]

\* manager.start() up to `await connect(...)`
WorkerStart ==
    /\ manager.connection = "none"
    /\ manager' = [manager EXCEPT !.connection = "connecting"]
    /\ UNCHANGED <<wsubs, reloads, wmsgs>>

\* start() after connect: every pool of the configuration is started
WorkerConnected ==
    /\ manager.connection = "connecting"
    /\ LET st == Started([WorkerState EXCEPT !.manager.connection = "open"],
                         manager.config)
       IN wsubs' = st.wsubs /\ manager' = st.manager
    /\ UNCHANGED <<reloads, wmsgs>>

\* SIGHUP: manager.reload(loadConfig()) up to its first await
Reload(newConfig) ==
    /\ manager.connection = "open"
    /\ Len(reloads) < MaxReloads
    /\ LET st == ReloadStep([WorkerState EXCEPT
                                !.reloads = Append(@, [pc |-> "called", config |-> newConfig,
                                                       arr |-> manager.subscriptions,
                                                       i |-> 1])],
                            Len(reloads) + 1)
       IN wsubs' = st.wsubs /\ manager' = st.manager /\ reloads' = st.reloads
    /\ UNCHANGED wmsgs

\* the drain of subscription s completes
WorkerDrainDone(s) ==
    /\ wsubs[s].state = "draining"
    /\ LET st == Drained([WorkerState EXCEPT !.wsubs[s].state = "closed"], s, 1)
       IN wsubs' = st.wsubs /\ manager' = st.manager /\ reloads' = st.reloads
    /\ UNCHANGED wmsgs

\* the subscriptions the bus hands a message on subject to: one member of every queue
\* group, and every subscription outside a queue group
IsDelivery(to, subject) ==
    LET subs == {n \in 1..Len(wsubs) :
                    wsubs[n].subject = subject /\ wsubs[n].state = "active"}
    IN /\ to \subseteq subs
       /\ \A n \in subs : wsubs[n].queue = "" => n \in to
       /\ \A n \in subs : wsubs[n].queue # "" =>
             Cardinality({k \in to : wsubs[k].queue = wsubs[n].queue}) = 1

\* a request published on subject; each subscription that gets it runs runWorker's body
\* (wmsgs keeps the latest request)
Publish(subject, body, reply, to) ==
    /\ IsDelivery(to, subject)
    /\ wmsgs' = Append(<<>>,
                       [subject |-> subject, body |-> body, reply |-> reply,
                        listeners |-> Cardinality({n \in 1..Len(wsubs) :
                                        wsubs[n].subject = subject
                                        /\ wsubs[n].state = "active"}),
                        handledBy |-> to,
                        results |-> [n \in to |-> HandleMessage(body)],
                        responses |-> [n \in to |-> RunWorker(body, reply)]])
    /\ UNCHANGED <<wsubs, manager, reloads>>

NextWorker ==
    /\ \/ WorkerStart
       \/ WorkerConnected
       \/ \E newConfig \in WorkerConfigs : Reload(newConfig)
       \/ \E s \in 1..Len(wsubs) : WorkerDrainDone(s)
       \/ \E body \in RequestBodies, reply \in BOOLEAN, to \in SUBSET (1..Len(wsubs)) :
             Publish("s.c", body, reply, to)
    /\ UNCHANGED <<now, cfg, cache, ttlVars, dedupVars, resVars, poolVars, invVars,
                   lifeVars, subVars, auxVars>>

SpecWorker == InitWorker /\ [][NextWorker]_vars

\* C26: handleMessage never throws; it returns INVALID_REQUEST (not retryable) for a body
\* that is not JSON, INVALID_ARGUMENT (not retryable) for JSON that is no invocation
\* envelope, the handler's result when the handler returns, and INTERNAL_ERROR
\* (retryable) when the handler throws.
C26_HandleMessageTotal ==
    \A m \in 1..Len(wmsgs) : \A n \in wmsgs[m].handledBy :
        LET b == wmsgs[m].body
            r == wmsgs[m].results[n]
        IN /\ ~r.threw
           /\ ~b.json => /\ ~r.response.ok /\ r.response.code = "INVALID_REQUEST"
                         /\ ~r.response.retryable
           /\ (b.json /\ ~b.valid) => /\ ~r.response.ok
                                      /\ r.response.code = "INVALID_ARGUMENT"
                                      /\ ~r.response.retryable
           /\ (b.valid /\ ~GetHandler(b).threw) => r.response = GetHandler(b).response
           /\ (b.valid /\ GetHandler(b).threw) => /\ ~r.response.ok
                                                  /\ r.response.code = "INTERNAL_ERROR"
                                                  /\ r.response.retryable

C26_Witness ==
    \E m \in 1..Len(wmsgs) : \E n \in wmsgs[m].handledBy :
        /\ wmsgs[m].body.does = "throws"
        /\ wmsgs[m].results[n].response.code = "INTERNAL_ERROR"

\* C27: every subscription of a pool is in the pool's consumer group, and a request
\* published while the subject has active subscriptions is handled by exactly one
\* worker loop, which sends exactly one response when the request has a reply subject
\* and none otherwise.
C27_OneWorkerOneResponse ==
    /\ \A n \in 1..Len(wsubs) : wsubs[n].queue = wsubs[n].group
    /\ \A m \in 1..Len(wmsgs) :
          wmsgs[m].listeners > 0 =>
             /\ Cardinality(wmsgs[m].handledBy) = 1
             /\ \A n \in wmsgs[m].handledBy :
                   Len(wmsgs[m].responses[n]) = IF wmsgs[m].reply THEN 1 ELSE 0

C27_Witness ==
    \E m \in 1..Len(wmsgs) :
        /\ wmsgs[m].listeners = 2 /\ wmsgs[m].reply /\ wmsgs[m].body.does = "throws"
        /\ \E n \in wmsgs[m].handledBy :
              /\ wmsgs[m].handledBy = {n}
              /\ wmsgs[m].responses[n][1].code = "INTERNAL_ERROR"

\* C28: once every reload that was called has completed, every subscription that is
\* not closed is tracked in manager.subscriptions, and each resolved
\* (subject, consumerGroup) of the manager's configuration has exactly concurrentWorkers
\* open subscriptions.
C28_ReloadReplacesSubscriptions ==
    (reloads # <<>> /\ \A r \in 1..Len(reloads) : reloads[r].pc = "done")
    => LET open == {n \in 1..Len(wsubs) : wsubs[n].state # "closed"}
       IN /\ open = {manager.subscriptions[k] : k \in 1..Len(manager.subscriptions)}
          /\ \A p \in 1..Len(manager.config.workerPools) :
                LET wp == manager.config.workerPools[p]
                    specs == ResolvePoolCapabilities(wp, 1)
                IN wp.sandboxId \in manager.config.sandboxes =>
                      \A k \in 1..Len(specs) :
                         Cardinality({n \in open :
                                         /\ wsubs[n].subject = specs[k].subject
                                         /\ wsubs[n].queue = specs[k].consumerGroup})
                         = wp.concurrentWorkers

-----------------------------------------------------------------------------
(* ResolutionCache.buildKey on pairs of inputs: SpecKey (cache.ts lines 37-52) *)

\* ctx.tenantId and ctx.env: absent, empty, plain, and a tenant id that contains the
\* separator
KeyTenants == {None, Some(<<>>), Some(<<"t">>), Some(<<"t", "|", "e", ":", "p">>)}
KeyEnvs == {None, Some(<<>>), Some(<<"p">>)}
KeyCtxs == {None} \cup {Some([tenantId |-> t, env |-> e]) : t \in KeyTenants, e \in KeyEnvs}

\* the params objects buildKey is called with
KeyInputs ==
    [cap : {AppCap}, ver : {None, Some(<<"1">>)},
     canonicalIdentity : {None, Some(<<"c", "a", "p", ":", "r">>)}, ctx : KeyCtxs]

\* params.ctx?.tenantId and params.ctx?.env
CtxTenantId(p) == IF p.ctx = None THEN None ELSE p.ctx[1].tenantId
CtxEnv(p) == IF p.ctx = None THEN None ELSE p.ctx[1].env

InitKey ==
    /\ now = 0 /\ cache = <<>>
    /\ \E t \in BOOLEAN, e \in BOOLEAN :
          cfg = [ResolutionCacheConfigOf(ClientConfig) EXCEPT !.includeTenantInKey = t,
                                                              !.includeEnvInKey = e]
    /\ IdleTtl /\ IdleDedup /\ IdleRes /\ IdlePool /\ IdleInv
    /\ IdleLife /\ IdleSub /\ IdleWork
    /\ \E p \in KeyInputs, q \in KeyInputs :
          /\ p.ver = q.ver /\ p.canonicalIdentity = q.canonicalIdentity
          /\ keyed = [p |-> p, q |-> q, keys |-> <<>>]
    /\ dl = None

\* cache.buildKey(p) and cache.buildKey(q) on one ResolutionCache
BuildKeys ==
    /\ keyed.keys = <<>>
    /\ keyed' = [keyed EXCEPT !.keys = <<BuildKey(keyed.p, cfg), BuildKey(keyed.q, cfg)>>]
    /\ UNCHANGED <<now, cfg, cache, ttlVars, dedupVars, resVars, poolVars, invVars,
                   lifeVars, subVars, workVars, dl>>

NextKey == BuildKeys

SpecKey == InitKey /\ [][NextKey]_vars

\* the tenant id or environment a context names: none when absent or empty
ScopeValue(o) == IF Truthy(o) THEN o ELSE None

\* C31: for two inputs with the same cap and ver (and canonicalIdentity), the keys
\* buildKey returns differ exactly when the inputs name different tenants and
\* includeTenantInKey is set, or name different environments and includeEnvInKey is set
\* (an absent and an empty value both name none).
C31_KeysDifferWithScope ==
    (keyed # None /\ keyed.keys # <<>>)
    => ((keyed.keys[1] # keyed.keys[2])
        <=> \/ /\ cfg.includeTenantInKey
               /\ ScopeValue(CtxTenantId(keyed.p)) # ScopeValue(CtxTenantId(keyed.q))
            \/ /\ cfg.includeEnvInKey
               /\ ScopeValue(CtxEnv(keyed.p)) # ScopeValue(CtxEnv(keyed.q)))

-----------------------------------------------------------------------------
(* The deadline middleware: SpecDeadline
   (src/common/node/src/middleware.ts lines 136-168) *)

MaxDeadlineTicks == 3

\* env.ctx.timeoutMs and env.ctx.deadlineUnixMs of the envelopes passed in
DeadlineCtxs ==
    [timeoutMs : {None, Some(0), Some(2000)},
     deadlineUnixMs : {None, Some(0), Some(1000), Some(3000)}]

\* what next(env, signal) settles with
DeadlineNextOutcomes ==
    {OkResult(None), ErrResult("NOT_FOUND", FALSE, "", None),
     CapabilityError("TIMEOUT", TRUE, "aborted")}

NoDeadlineCall ==
    [pc |-> "idle", ctx |-> [timeoutMs |-> None, deadlineUnixMs |-> None], at |-> 0,
     timer |-> None, aborted |-> FALSE, nextCalled |-> FALSE, out |-> NoOutcome]

\* `if (timeoutMs && timeoutMs > 0)`
HasTimeout(ctx) == ctx.timeoutMs # None /\ ctx.timeoutMs[1] > 0

\* lines 156-158: reached only without a timeout; `deadline && deadline > 0` and
\* `now >= deadline`
DeadlineExceeded(ctx, t) ==
    /\ ~HasTimeout(ctx)
    /\ ctx.deadlineUnixMs # None /\ ctx.deadlineUnixMs[1] > 0 /\ t >= ctx.deadlineUnixMs[1]

InitDeadline ==
    /\ now = 0 /\ cfg = None /\ cache = <<>>
    /\ IdleTtl /\ IdleDedup /\ IdleRes /\ IdlePool /\ IdleInv
    /\ IdleLife /\ IdleSub /\ IdleWork
    /\ keyed = None
    /\ dl = NoDeadlineCall

\* the middleware called with env: up to its throw or to the await on next
DeadlineCall(ctx) ==
    /\ dl.pc = "idle"
    /\ dl' = IF DeadlineExceeded(ctx, now)
             THEN [dl EXCEPT !.pc = "done", !.ctx = ctx, !.at = now,
                             !.out = CapabilityError("TIMEOUT", TRUE, "")]
             ELSE [dl EXCEPT !.pc = "next", !.ctx = ctx, !.at = now, !.nextCalled = TRUE,
                             !.timer = IF HasTimeout(ctx)
                                       THEN Some(now + ctx.timeoutMs[1]) ELSE None]
    /\ UNCHANGED now

\* the setTimeout callback: ctrl.abort(TIMEOUT)
DeadlineTimerFires ==
    /\ dl.pc = "next" /\ dl.timer # None /\ now >= dl.timer[1]
    /\ dl' = [dl EXCEPT !.timer = None, !.aborted = TRUE]
    /\ UNCHANGED now

\* next settles; the finally block clears the timer
DeadlineNextSettles(o) ==
    /\ dl.pc = "next"
    /\ dl' = [dl EXCEPT !.pc = "done", !.timer = None, !.out = o]
    /\ UNCHANGED now

DeadlineTick ==
    /\ Advance(1000, MaxDeadlineTicks)
    /\ UNCHANGED dl

NextDeadline ==
    /\ \/ \E ctx \in DeadlineCtxs : DeadlineCall(ctx)
       \/ DeadlineTimerFires
       \/ \E o \in DeadlineNextOutcomes : DeadlineNextSettles(o)
       \/ DeadlineTick
    /\ UNCHANGED <<cfg, cache, ttlVars, dedupVars, resVars, poolVars, invVars,
                   lifeVars, subVars, workVars, keyed>>

SpecDeadline == InitDeadline /\ [][NextDeadline]_vars

\* C32: a call whose ctx.deadlineUnixMs had passed when it was made has failed with
\* TIMEOUT (retryable) in that step, and next was not called - with or without
\* ctx.timeoutMs.
C32_PassedDeadlineFailsAtOnce ==
    (/\ dl # None /\ dl.pc # "idle"
     /\ dl.ctx.deadlineUnixMs # None /\ dl.ctx.deadlineUnixMs[1] > 0
     /\ dl.at >= dl.ctx.deadlineUnixMs[1])
    => /\ dl.pc = "done" /\ ~dl.nextCalled
       /\ dl.out = CapabilityError("TIMEOUT", TRUE, "")


-----------------------------------------------------------------------------
(* The pool's bookkeeping under overlapping calls, failures and closeAll *)

\* nothing of the pool is in flight: no getOrConnect, no reaper run, no closeAll
PoolQuiescent ==
    /\ \A c \in PoolCallers : ppc[c] = "idle"
    /\ reaper.wait = 0 /\ closer = None

\* C36: whenever nothing of the pool is in flight, every connection the pool opened and has
\* not drained is the connection of an entry of the map; overlapping getOrConnect calls for
\* one url leave no open connection that no entry refers to.
C36_ConnectionsTrackedOrDrained ==
    PoolQuiescent
    => \A k \in 1..Len(conn) :
          conn[k] = "open" => \E i \in 1..Len(pool) : pool[i].connection = k

\* C37: a getOrConnect that fails, on the auth provider or on connect, has closed no entry
\* of another url on its way.
C37_FailureEvictsNothing ==
    \A c \in PoolCallers :
        (ppc[c] = "idle" /\ pcall[c].res.src = "error") => pcall[c].victim = <<>>

\* C38: once closeAll has returned and every getOrConnect that was in flight during it has
\* settled, none of these calls has left an open connection behind.
C38_NothingOpenAfterCloseAll ==
    (/\ closer = None
     /\ \A c \in PoolCallers : pcall[c].during => ppc[c] = "idle")
    => \A c \in PoolCallers :
          (pcall[c].during /\ pcall[c].res.src = "created")
          => conn[pcall[c].res.conn] # "open"


-----------------------------------------------------------------------------
(* SpecReap: the pool of one remote bus under fair scheduling: time passes, the interval *)
(* timer's callback runs whenever it is due, drains complete, callers take their results *)

ReapUrls == {<<"a">>}

InitReap ==
    /\ InitPool
    /\ poolCfg.authProvider

NextReap ==
    \/ \E c \in PoolCallers, u \in ReapUrls : GetOrConnect(c, u)
    \/ \E k \in 1..MaxPoolConns : DrainDone(k)
    \/ \E c \in PoolCallers : AuthReply(c, LruAuthOutcome)
    \/ \E c \in PoolCallers : ConnectReply(c, TRUE)
    \/ ReaperFire
    \/ CloseAll
    \/ PoolTick
    \/ PoolReturn

SpecReap ==
    /\ InitReap /\ [][NextReap]_vars
    /\ SF_vars(PoolTick) /\ SF_vars(ReaperFire)
    /\ SF_vars(\E k \in 1..MaxPoolConns : DrainDone(k))
    /\ WF_vars(PoolReturn)

\* the entry of url has not been used for more than idleTimeoutMs
IdleEntry(url) ==
    HasKey(pool, url) /\ now - EntryOf(pool, url).lastUsedAt > poolCfg.idleTimeoutMs

\* C34: an entry that has been idle for more than idleTimeoutMs, at a moment from which the
\* reaper's next run is due within the clock's range, is eventually removed from the pool
\* (or used again), be it created before or after a closeAll.
C34_IdleEntriesReaped ==
    \A u \in ReapUrls :
        [](( /\ IdleEntry(u)
             /\ reaper.lastAt + 60000 <= MaxPoolTicks * 30000 )
           => <>(~IdleEntry(u)))


-----------------------------------------------------------------------------
(* initialize after close *)

\* C40: an initialize called after close() has closed the default connection the client
\* had opened itself, with no earlier initialize still running, starts by opening a new
\* connection.
C40_InitializeAfterCloseConnects ==
    [][(/\ ccall.pc = "done" /\ ccall.n > 0
        /\ ~initialized /\ \A i \in 1..Len(icall) : icall[i].pc \in {"done", "failed"}
        /\ client.natsConnection # 0 /\ client.ownNatsConnection
        /\ conns[client.natsConnection].state = "closed"
        /\ Len(icall') = Len(icall) + 1)
       => icall'[Len(icall')].pc = "connect"]_vars

=============================================================================
